---- MODULE Spec2Model ----
(***************************************************************************)
(* A model of the syslog codec of SyslogTester: the RFC 3164 and RFC 5424  *)
(* message generators and parsers, their priority codec and the dispatch   *)
(* layer in front of them.                                                 *)
(*                                                                         *)
(* Texts are TLA+ strings read one character at a time; the two regular    *)
(* expressions of the parsers are matched the way Python's re matches      *)
(* them (greedy and lazy quantifiers tried in the engine's order).         *)
(* Optional[T] is a sequence of length 0 (None) or 1 (the value).          *)
(***************************************************************************)
EXTENDS Integers, Sequences, FiniteSets, TLC

VARIABLES
    now,                \* the system clock, what datetime.datetime.now() reads
    ticks,              \* seconds the clock has advanced since the start
    call,               \* the last call made: "idle", "encode", "generate", "parse", "send", ...
    codec,              \* operands and results of the priority codec
    rfc_version,        \* the version string of the last generate/parse call
    components,         \* the MessageComponents of the last generate call
    generated_message,  \* the outcome of the last generate call
    raw_message,        \* the text handed to the last parse call
    parsed_message,     \* the outcome of the last parse call
    regenerated,        \* the outcome of generating again from the parsed fields
    clock_read,         \* the reading of the clock the last call took
    send_call,          \* the arguments of the last SyslogSender.send call, if any
    send_outcome,       \* the outcome of the last SyslogSender.send call
    sockets,            \* how many sockets the calls have opened and closed
    wire,               \* what has been handed to the network, in order
    request,            \* the request of the last endpoint call
    response,           \* what the last endpoint call returned or raised
    events,             \* the service calls an endpoint made, in order
    frames,             \* per caller, the call of parse or generate it is in
    running,            \* DebugSyslogServer.running
    threads,            \* the listener threads of the server, as they were started
    ctl,                \* per controller, where it is in a call of start()
    table,              \* the rows of custom_examples, by id
    db_call             \* the last call of ExampleDatabase and what it met

\* the state of the codec, of the sender and of the endpoints
codecVars == <<codec, rfc_version, components, generated_message, raw_message,
               parsed_message, regenerated>>
senderVars == <<send_call, send_outcome, sockets, wire>>
routerVars == <<request, response, events>>
callerVars == <<frames>>
serverVars == <<running, threads, ctl>>
dbVars == <<table, db_call>>

vars == <<now, ticks, call, codec, rfc_version, components, generated_message,
          raw_message, parsed_message, regenerated, clock_read,
          send_call, send_outcome, sockets, wire, request, response, events, frames,
          running, threads, ctl, table, db_call>>

(***************************************************************************)
(* Bounds of the model.                                                    *)
(***************************************************************************)
\* seconds the clock may advance during one scenario
MaxTicks == 1
\* the largest priority and pid values drawn beyond the values of the RFCs
MaxExtra == 1
\* the most listener threads one scenario starts, two by each start()
MaxThreads == 4
\* the most rows the table of examples holds
MaxRows == 2

(***************************************************************************)
(* Optional values, Python truthiness.                                     *)
(***************************************************************************)
None == << >>
Some(x) == << x >>
Val(o) == o[1]
IsNone(o) == o = None
\* bool(o) of an Optional[str]: None and "" are falsy
TruthyStr(o) == ~IsNone(o) /\ Val(o) # ""
\* bool(o) of an Optional[int]: None and 0 are falsy
TruthyInt(o) == ~IsNone(o) /\ Val(o) # 0
\* a defaulting that looks at None only: x if x is not None else d
OrElse_is_none(o, d) == IF IsNone(o) THEN d ELSE Val(o)
\* Python's `o or d` for an Optional[str]
OrElse(o, d) == IF TruthyStr(o) THEN Val(o) ELSE d

(***************************************************************************)
(* Characters and character classes of Python's re.                        *)
(***************************************************************************)
\* the i-th character of s, "" beyond its end
Ch(s, i) == IF 1 <= i /\ i <= Len(s) THEN SubSeq(s, i, i) ELSE ""
\* s[i-1:] and s[i-1:j] of Python (positions count from 1 here)
From(s, i) == IF i > Len(s) THEN "" ELSE SubSeq(s, i, Len(s))
Sub(s, i, j) == IF i > j THEN "" ELSE SubSeq(s, i, j)
Digits == {"0", "1", "2", "3", "4", "5", "6", "7", "8", "9"}
Letters == {"a", "b", "c", "d", "e", "f", "g", "h", "i", "j", "k", "l", "m",
            "n", "o", "p", "q", "r", "s", "t", "u", "v", "w", "x", "y", "z",
            "A", "B", "C", "D", "E", "F", "G", "H", "I", "J", "K", "L", "M",
            "N", "O", "P", "Q", "R", "S", "T", "U", "V", "W", "X", "Y", "Z"}
\* \s
Whitespace == {" ", "\t", "\n", "\r", "\f"}
\* \w
WordChars == Letters \cup Digits \cup {"_"}
IsDigit(c) == c \in Digits
IsSpace(c) == c \in Whitespace
IsWord(c) == c \in WordChars
\* \S
IsNonSpace(c) == c \notin Whitespace
\* [^:\[\s]
IsTagChar(c) == c \notin (Whitespace \cup {":", "["})
\* . (without DOTALL)
IsDot(c) == c # "\n"

\* how many characters of s, from position i on, are in class (inClass) or
\* are outside it (~inClass): the reach of a greedy class* at i
RECURSIVE Span(_, _, _, _)
Span(s, i, class, inClass) ==
    IF i <= Len(s) /\ ((Ch(s, i) \in class) = inClass)
    THEN 1 + Span(s, i + 1, class, inClass) ELSE 0

(***************************************************************************)
(* str.strip(): the text without its leading and trailing whitespace.      *)
(***************************************************************************)
RECURSIVE LStrip(_)
LStrip(s) ==
    IF Len(s) > 0 /\ IsSpace(Ch(s, 1)) THEN LStrip(From(s, 2)) ELSE s

RECURSIVE RStrip(_)
RStrip(s) ==
    IF Len(s) > 0 /\ IsSpace(Ch(s, Len(s)))
    THEN RStrip(Sub(s, 1, Len(s) - 1)) ELSE s

\* a strip that leaves the end of the text as it is
strip_left(s) == LStrip(s)

strip(s) == RStrip(LStrip(s))

(***************************************************************************)
(* Decimal text of integers: str(n), f"{n}", f"{n:2d}", zero padding, and  *)
(* int(text).                                                              *)
(***************************************************************************)
DigitChar(d) == CASE d = 0 -> "0" [] d = 1 -> "1" [] d = 2 -> "2" [] d = 3 -> "3"
                  [] d = 4 -> "4" [] d = 5 -> "5" [] d = 6 -> "6" [] d = 7 -> "7"
                  [] d = 8 -> "8" [] d = 9 -> "9"
DigitVal(c) == CASE c = "0" -> 0 [] c = "1" -> 1 [] c = "2" -> 2 [] c = "3" -> 3
                 [] c = "4" -> 4 [] c = "5" -> 5 [] c = "6" -> 6 [] c = "7" -> 7
                 [] c = "8" -> 8 [] c = "9" -> 9

RECURSIVE NatStr(_)
NatStr(n) == IF n < 10 THEN DigitChar(n) ELSE NatStr(n \div 10) \o DigitChar(n % 10)

\* str(n) of a Python int
IntStr(n) == IF n < 0 THEN "-" \o NatStr(0 - n) ELSE NatStr(n)

RECURSIVE PadLeft(_, _, _)
PadLeft(s, width, fill) == IF Len(s) >= width THEN s ELSE PadLeft(fill \o s, width, fill)

\* f"{n:2d}": right-aligned in width 2, padded with spaces
Fmt2d(n) == PadLeft(IntStr(n), 2, " ")
\* %H, %M, %S, %m, %d of strftime/isoformat: two digits, zero padded
Fmt02(n) == PadLeft(NatStr(n), 2, "0")
\* the year of isoformat: four digits, zero padded
Fmt04(n) == PadLeft(NatStr(n), 4, "0")
\* the microseconds of isoformat: six digits, zero padded
Fmt06(n) == PadLeft(NatStr(n), 6, "0")

RECURSIVE AllDigits(_)
AllDigits(s) == Len(s) = 0 \/ (IsDigit(Ch(s, 1)) /\ AllDigits(From(s, 2)))

RECURSIVE DigitsValue(_, _)
DigitsValue(s, acc) ==
    IF Len(s) = 0 THEN acc ELSE DigitsValue(From(s, 2), acc * 10 + DigitVal(Ch(s, 1)))

\* int(s) of a text of decimal digits (the only texts the parsers hand to int)
int(s) == DigitsValue(s, 0)

(***************************************************************************)
(* Outcomes of calls that may raise.                                       *)
(***************************************************************************)
Ok(v) == [ok |-> TRUE, val |-> v]
Raise(kind, text) == [ok |-> FALSE, exc |-> kind, msg |-> text]
\* the outcome a call that was not made has
NoOutcome == Raise("", "")

(***************************************************************************)
(* The calendar of datetime.                                               *)
(***************************************************************************)
IsLeap(y) == (y % 4 = 0) /\ ((y % 100 # 0) \/ (y % 400 = 0))

DaysInMonth(y, m) ==
    IF m = 2 THEN (IF IsLeap(y) THEN 29 ELSE 28)
    ELSE IF m \in {4, 6, 9, 11} THEN 30 ELSE 31

\* datetime.datetime(year, month, day, hour, minute, second): the value, or
\* the ValueError of the first field that is out of range
datetime(y, m, d, hh, mm, ss) ==
    IF m < 1 \/ m > 12 THEN Raise("ValueError", "month must be in 1..12")
    ELSE IF d < 1 \/ d > DaysInMonth(y, m)
        THEN Raise("ValueError", "day is out of range for month")
    ELSE IF hh < 0 \/ hh > 23 THEN Raise("ValueError", "hour must be in 0..23")
    ELSE IF mm < 0 \/ mm > 59 THEN Raise("ValueError", "minute must be in 0..59")
    ELSE IF ss < 0 \/ ss > 59 THEN Raise("ValueError", "second must be in 0..59")
    ELSE Ok([year |-> y, month |-> m, day |-> d, hour |-> hh, minute |-> mm,
             second |-> ss, microsecond |-> 0])

\* datetime.isoformat(): the fraction is written only when it is not zero
isoformat(dt) ==
    Fmt04(dt.year) \o "-" \o Fmt02(dt.month) \o "-" \o Fmt02(dt.day) \o "T"
    \o Fmt02(dt.hour) \o ":" \o Fmt02(dt.minute) \o ":" \o Fmt02(dt.second)
    \o (IF dt.microsecond # 0 THEN "." \o Fmt06(dt.microsecond) ELSE "")

\* the reading of the clock one second later
NextSecond(t) ==
    IF t.second < 59 THEN [t EXCEPT !.second = t.second + 1]
    ELSE IF t.minute < 59 THEN [t EXCEPT !.second = 0, !.minute = t.minute + 1]
    ELSE IF t.hour < 23 THEN [t EXCEPT !.second = 0, !.minute = 0, !.hour = t.hour + 1]
    ELSE IF t.day < DaysInMonth(t.year, t.month)
        THEN [t EXCEPT !.second = 0, !.minute = 0, !.hour = 0, !.day = t.day + 1]
    ELSE IF t.month < 12
        THEN [t EXCEPT !.second = 0, !.minute = 0, !.hour = 0, !.day = 1,
                       !.month = t.month + 1]
    ELSE [t EXCEPT !.second = 0, !.minute = 0, !.hour = 0, !.day = 1,
                   !.month = 1, !.year = t.year + 1]

\* list[i] of Python: negative indices count from the end
PyIndex(list, i) ==
    IF 0 <= i /\ i < Len(list) THEN Ok(list[i + 1])
    ELSE IF 0 - Len(list) <= i /\ i < 0 THEN Ok(list[Len(list) + i + 1])
    ELSE Raise("IndexError", "list index out of range")

(***************************************************************************)
(* The priority codec.                                                     *)
(***************************************************************************)
\* x << 3 and x >> 3 of Python ints (an arithmetic shift), x & 7
ShiftLeft3(x) == x * 8
ShiftRight3(x) == x \div 8
And7(x) == x % 8

\* a priority computed with a narrower shift
RFC3164_generate_priority_shift2(facility, severity) == facility * 4 + severity

\* RFC3164MessageGenerator.generate_priority
RFC3164_generate_priority(facility, severity) == ShiftLeft3(facility) + severity

\* RFC5424MessageGenerator.generate_priority
RFC5424_generate_priority(facility, severity) == ShiftLeft3(facility) + severity

\* a decoder that masks one bit too many
RFC3164_parse_priority_mask15(priority) == <<ShiftRight3(priority), priority % 16>>

\* RFC3164Parser.parse_priority
RFC3164_parse_priority(priority) == <<ShiftRight3(priority), And7(priority)>>

\* a decoder that shifts one bit too far
RFC5424_parse_priority_shift4(priority) == <<priority \div 16, And7(priority)>>

\* RFC5424Parser.parse_priority
RFC5424_parse_priority(priority) == <<ShiftRight3(priority), And7(priority)>>

(***************************************************************************)
(* MessageComponents (app/models/syslog.py).                               *)
(***************************************************************************)
MessageComponents(v, pri, fac, sev, ts, host, tg, pd, app, proc, mid, sd, msg) ==
    [rfc_version |-> v, priority |-> pri, facility |-> fac, severity |-> sev,
     timestamp |-> ts, hostname |-> host, tag |-> tg, pid |-> pd,
     app_name |-> app, proc_id |-> proc, msg_id |-> mid,
     structured_data |-> sd, message |-> msg]

(***************************************************************************)
(* The RFC 3164 generator.                                                 *)
(***************************************************************************)
months == <<"Jan", "Feb", "Mar", "Apr", "May", "Jun",
            "Jul", "Aug", "Sep", "Oct", "Nov", "Dec">>

\* the month looked up one place too far
RFC3164_generate_timestamp_off_by_one(t) ==
    LET month == PyIndex(months, t.month)
    IN IF ~month.ok THEN month
       ELSE Ok(month.val \o " " \o Fmt2d(t.day) \o " " \o Fmt02(t.hour) \o ":"
               \o Fmt02(t.minute) \o ":" \o Fmt02(t.second))

\* RFC3164MessageGenerator.generate_timestamp, t the reading of the clock
RFC3164_generate_timestamp(t) ==
    LET month == PyIndex(months, t.month - 1)
    IN IF ~month.ok THEN month
       ELSE Ok(month.val \o " " \o Fmt2d(t.day) \o " " \o Fmt02(t.hour) \o ":"
               \o Fmt02(t.minute) \o ":" \o Fmt02(t.second))

\* the priority chosen with `if not priority` in place of `is None`
RFC3164_priority_falsy(c) ==
    IF ~TruthyInt(c.priority) /\ ~IsNone(c.facility) /\ ~IsNone(c.severity)
        THEN RFC3164_generate_priority(Val(c.facility), Val(c.severity))
    ELSE IF ~TruthyInt(c.priority) THEN 34
    ELSE Val(c.priority)

\* the priority RFC3164MessageGenerator.generate writes
RFC3164_priority(c) ==
    IF IsNone(c.priority) /\ ~IsNone(c.facility) /\ ~IsNone(c.severity)
        THEN RFC3164_generate_priority(Val(c.facility), Val(c.severity))
    ELSE IF IsNone(c.priority) THEN 34
    ELSE Val(c.priority)

\* the [PID] segment: f"[{components.pid}]" if components.pid else ""
PidSegment(c) == IF TruthyInt(c.pid) THEN "[" \o IntStr(Val(c.pid)) \o "]" ELSE ""

\* RFC3164MessageGenerator.generate
RFC3164_generate(c, t) ==
    LET priority == RFC3164_priority(c)
        timestamp == IF TruthyStr(c.timestamp) THEN Ok(Val(c.timestamp))
                     ELSE RFC3164_generate_timestamp(t)
        hostname == OrElse(c.hostname, "localhost")
        tag == OrElse(c.tag, "app")
        pid_str == PidSegment(c)
        message == OrElse(c.message, "")
    IN IF ~timestamp.ok THEN timestamp
       ELSE Ok("<" \o IntStr(priority) \o ">" \o timestamp.val \o " " \o hostname
               \o " " \o tag \o pid_str \o ": " \o message)

(***************************************************************************)
(* The RFC 5424 generator.                                                 *)
(***************************************************************************)
\* RFC5424MessageGenerator.generate_timestamp: the local time with a "Z"
RFC5424_generate_timestamp(t) == Ok(isoformat(t) \o "Z")

\* the priority RFC5424MessageGenerator.generate writes
RFC5424_priority(c) ==
    IF IsNone(c.priority) /\ ~IsNone(c.facility) /\ ~IsNone(c.severity)
        THEN RFC5424_generate_priority(Val(c.facility), Val(c.severity))
    ELSE IF IsNone(c.priority) THEN 34
    ELSE Val(c.priority)

\* RFC5424MessageGenerator.generate
RFC5424_generate(c, t) ==
    LET priority == RFC5424_priority(c)
        version == 1
        timestamp == IF TruthyStr(c.timestamp) THEN Ok(Val(c.timestamp))
                     ELSE RFC5424_generate_timestamp(t)
        hostname == OrElse(c.hostname, "localhost")
        app_name == OrElse(c.app_name, "-")
        proc_id == OrElse(c.proc_id, "-")
        msg_id == OrElse(c.msg_id, "-")
        structured_data == OrElse(c.structured_data, "-")
        message == OrElse(c.message, "")
    IN IF ~timestamp.ok THEN timestamp
       ELSE Ok("<" \o IntStr(priority) \o ">" \o IntStr(version) \o " "
               \o timestamp.val \o " " \o hostname \o " " \o app_name \o " "
               \o proc_id \o " " \o msg_id \o " " \o structured_data \o " " \o message)

\* a dispatch on the end of the version string: rfc_version.endswith("5424")
generate_endswith(version, c, t) ==
    IF Len(version) >= 4 /\ From(version, Len(version) - 3) = "5424"
    THEN RFC5424_generate(c, t) ELSE RFC3164_generate(c, t)

\* generator_service.generate
generate(version, c, t) ==
    IF version = "5424" THEN RFC5424_generate(c, t) ELSE RFC3164_generate(c, t)

(***************************************************************************)
(* Matching a pattern of Python's re from the left.  A match in progress   *)
(* is the position of the next character, the start of the group being     *)
(* captured, and the groups captured so far.                               *)
(***************************************************************************)
NoMatch == [ok |-> FALSE, pos |-> 0, mark |-> 0, g |-> << >>]
\* pattern.match(s) starts at the first character
ReStart == [ok |-> TRUE, pos |-> 1, mark |-> 1, g |-> << >>]
\* a literal character
ReLit(s, m, c) ==
    IF m.ok /\ Ch(s, m.pos) = c THEN [m EXCEPT !.pos = @ + 1] ELSE NoMatch
\* a greedy class{lo,hi} (hi = 0: no upper limit); ~inClass negates the class
ReClass(s, m, class, inClass, lo, hi) ==
    IF m.ok /\ Span(s, m.pos, class, inClass) >= lo
    THEN [m EXCEPT !.pos = IF hi > 0 /\ Span(s, m.pos, class, inClass) > hi
                            THEN @ + hi ELSE @ + Span(s, m.pos, class, inClass)]
    ELSE NoMatch
\* "(" and ")"
ReMark(m) == IF m.ok THEN [m EXCEPT !.mark = m.pos] ELSE m
ReCapture(s, m) ==
    IF m.ok THEN [m EXCEPT !.g = Append(@, Some(Sub(s, m.mark, m.pos - 1)))] ELSE m
\* (?:...)? around one group: the match with it when there is one, else
\* the match without it and the group None
ReOptional(m, with) ==
    IF with.ok THEN with
    ELSE IF m.ok THEN [m EXCEPT !.g = Append(@, None)]
    ELSE m
\* $: the end of the text, or just before a newline that ends it
ReEnd(s, m) ==
    IF m.ok /\ (m.pos = Len(s) + 1 \/ (m.pos = Len(s) /\ Ch(s, Len(s)) = "\n"))
    THEN m ELSE NoMatch
\* the groups of a match, or None
ReGroups(m) == IF m.ok THEN Some(m) ELSE None


(***************************************************************************)
(* str.split() and str.split(sep).                                         *)
(***************************************************************************)
RECURSIVE split(_)
split(s) ==
    LET t == LStrip(s)
        k == Span(t, 1, Whitespace, FALSE)
    IN IF t = "" THEN << >> ELSE <<Sub(t, 1, k)>> \o split(From(t, k + 1))

RECURSIVE split_on(_, _)
split_on(s, sep) ==
    LET k == Span(s, 1, {sep}, FALSE)
    IN IF k = Len(s) THEN <<s>> ELSE <<Sub(s, 1, k)>> \o split_on(From(s, k + 2), sep)

\* int(s): the parsers hand it only what \d matched; any other text raises
IntOf(s) ==
    IF s # "" /\ AllDigits(s) THEN Ok(int(s))
    ELSE Raise("ValueError", "invalid literal for int() with base 10: '" \o s \o "'")

(***************************************************************************)
(* The RFC 3164 parser.                                                    *)
(***************************************************************************)
MONTHS == [Jan |-> 1, Feb |-> 2, Mar |-> 3, Apr |-> 4, May |-> 5, Jun |-> 6,
           Jul |-> 7, Aug |-> 8, Sep |-> 9, Oct |-> 10, Nov |-> 11, Dec |-> 12]

\* a table that counts the months from 0
MONTHS_get_from_zero(name) ==
    IF name \in DOMAIN MONTHS THEN Some(MONTHS[name] - 1) ELSE None

\* MONTHS.get(name)
MONTHS_get(name) == IF name \in DOMAIN MONTHS THEN Some(MONTHS[name]) ELSE None

\* RFC3164_PATTERN, matched from the left.  Every quantifier of the pattern is
\* followed by a character its class excludes, so the greedy reach is the
\* only one that can match.
\* ^<(\d+)>
RFC3164_re_priority(s) ==
    ReLit(s, ReCapture(s, ReClass(s, ReMark(ReLit(s, ReStart, "<")),
                                  Digits, TRUE, 1, 0)), ">")
\* (\w{3}\s+\d{1,2}\s+
RFC3164_re_date(s) ==
    ReClass(s, ReClass(s, ReClass(s, ReClass(s, ReMark(RFC3164_re_priority(s)),
                                             WordChars, TRUE, 3, 3),
                                  Whitespace, TRUE, 1, 0),
                       Digits, TRUE, 1, 2),
            Whitespace, TRUE, 1, 0)
\* \d{2}:\d{2}:\d{2})\s+
RFC3164_re_time(s) ==
    ReClass(s, ReCapture(s,
        ReClass(s, ReLit(s, ReClass(s, ReLit(s, ReClass(s, RFC3164_re_date(s),
                                                        Digits, TRUE, 2, 2), ":"),
                                    Digits, TRUE, 2, 2), ":"),
                Digits, TRUE, 2, 2)),
            Whitespace, TRUE, 1, 0)
\* (\S+)\s+
RFC3164_re_hostname(s) ==
    ReClass(s, ReCapture(s, ReClass(s, ReMark(RFC3164_re_time(s)),
                                    Whitespace, FALSE, 1, 0)),
            Whitespace, TRUE, 1, 0)
\* ([^:\[\s]+)
RFC3164_re_tag(s) ==
    ReCapture(s, ReClass(s, ReMark(RFC3164_re_hostname(s)),
                         Whitespace \cup {":", "["}, FALSE, 1, 0))
\* \[([^\]]+)\]: a bracket that takes whatever stands before the "]"
RFC3164_re_pid_any(s, m) ==
    ReLit(s, ReCapture(s, ReClass(s, ReMark(ReLit(s, m, "[")), {"]"}, FALSE, 1, 0)), "]")
\* \[(\d+)\]
RFC3164_re_pid(s, m) ==
    ReLit(s, ReCapture(s, ReClass(s, ReMark(ReLit(s, m, "[")), Digits, TRUE, 1, 0)), "]")
\* (?:\[(\d+)\])?:\s*(.*)$
RFC3164_re_message(s) ==
    ReEnd(s, ReCapture(s,
        ReClass(s, ReMark(ReClass(s, ReLit(s, ReOptional(RFC3164_re_tag(s),
                                                         RFC3164_re_pid(s, RFC3164_re_tag(s))),
                                           ":"),
                                  Whitespace, TRUE, 0, 0)),
                {"\n"}, FALSE, 0, 0)))

\* groups unpacked with the tag before the hostname
RFC3164_groups_tag_first(m) ==
    [priority_str |-> Val(m.g[1]), timestamp_str |-> Val(m.g[2]),
     hostname |-> Val(m.g[4]), tag |-> Val(m.g[3]), pid_str |-> m.g[5],
     message |-> Val(m.g[6])]

\* match.groups()
RFC3164_groups(m) ==
    [priority_str |-> Val(m.g[1]), timestamp_str |-> Val(m.g[2]),
     hostname |-> Val(m.g[3]), tag |-> Val(m.g[4]), pid_str |-> m.g[5],
     message |-> Val(m.g[6])]

\* RFC3164_PATTERN.match(s): the six groups, or None
RFC3164_PATTERN_match(s) == ReGroups(RFC3164_re_message(s))

\* the body of parse_timestamp's try block
RFC3164_parse_timestamp_try(timestamp_str, t) ==
    LET parts == split(timestamp_str)
        month_name == PyIndex(parts, 0)
        day_text == PyIndex(parts, 1)
        day == IF day_text.ok THEN IntOf(day_text.val) ELSE day_text
        time_part == PyIndex(parts, 2)
        month == MONTHS_get(month_name.val)
        year == t.year
        fields == split_on(time_part.val, ":")
        hms == [i \in 1 .. Len(fields) |-> IntOf(fields[i])]
        dt == datetime(year, Val(month), day.val, hms[1].val, hms[2].val, hms[3].val)
    IN IF ~month_name.ok THEN month_name
       ELSE IF ~day.ok THEN day
       ELSE IF ~time_part.ok THEN time_part
       ELSE IF IsNone(month) \/ Val(month) = 0
           THEN Raise("ValueError", "Invalid month: " \o month_name.val)
       ELSE IF \E i \in 1 .. Len(fields) : ~hms[i].ok
           THEN hms[CHOOSE i \in 1 .. Len(fields) :
                      ~hms[i].ok /\ \A j \in 1 .. i - 1 : hms[j].ok]
       ELSE IF Len(fields) # 3
           THEN Raise("ValueError", "wrong number of values to unpack (expected 3)")
       ELSE IF ~dt.ok THEN dt
       ELSE Ok(isoformat(dt.val))

\* a parse_timestamp that falls back to the text as it came when the
\* conversion fails
RFC3164_parse_timestamp_fallback(timestamp_str, t) ==
    LET r == RFC3164_parse_timestamp_try(timestamp_str, t)
    IN IF r.ok THEN r ELSE Ok(timestamp_str)

\* RFC3164Parser.parse_timestamp, t the reading of the clock
RFC3164_parse_timestamp(timestamp_str, t) ==
    LET r == RFC3164_parse_timestamp_try(timestamp_str, t)
    IN IF r.ok THEN r
       ELSE Raise("ValueError", "Invalid timestamp format: " \o r.msg)

\* a pid that is "0" when the message has none
RFC3164_pid_zero(pid_str) == IF TruthyStr(pid_str) THEN pid_str ELSE Some("0")

\* pid = pid_str if pid_str else None
RFC3164_pid(pid_str) == IF TruthyStr(pid_str) THEN pid_str ELSE None

\* the try block of RFC3164Parser.parse, g the groups of the match
RFC3164_parse_groups(g, t) ==
    LET priority == IntOf(g.priority_str)
        fs == RFC3164_parse_priority(priority.val)
        timestamp == RFC3164_parse_timestamp(g.timestamp_str, t)
        pid == RFC3164_pid(g.pid_str)
    IN IF ~priority.ok THEN Raise("ValueError", "Parsing error: " \o priority.msg)
       ELSE IF ~timestamp.ok THEN Raise("ValueError", "Parsing error: " \o timestamp.msg)
       ELSE Ok([priority |-> priority.val,
                facility |-> fs[1],
                severity |-> fs[2],
                timestamp |-> timestamp.val,
                hostname |-> g.hostname,
                tag |-> g.tag,
                pid |-> pid,
                message |-> g.message,
                rfc_version |-> "3164"])

\* RFC3164Parser.parse once the pattern has been matched
RFC3164_parse_match(match, t) ==
    IF IsNone(match) THEN Raise("ValueError", "Invalid RFC 3164 syslog format")
    ELSE RFC3164_parse_groups(RFC3164_groups(Val(match)), t)

\* a parse that asks for the groups without looking at the match
RFC3164_parse_unchecked(raw, t) ==
    IF IsNone(RFC3164_PATTERN_match(strip(raw)))
    THEN Raise("AttributeError", "'NoneType' object has no attribute 'groups'")
    ELSE RFC3164_parse_groups(RFC3164_groups(Val(RFC3164_PATTERN_match(strip(raw)))), t)

\* RFC3164Parser.parse
RFC3164_parse(raw, t) ==
    IF IsNone(RFC3164_PATTERN_match(strip(raw)))
    THEN Raise("ValueError", "Invalid RFC 3164 syslog format")
    ELSE RFC3164_parse_groups(RFC3164_groups(Val(RFC3164_PATTERN_match(strip(raw)))), t)

(***************************************************************************)
(* The RFC 5424 parser.                                                    *)
(***************************************************************************)
\* \s*(.*)$ at position q: whether it matches, tried greedily
RFC5424_tail_matches(s, q) ==
    LET pMsg == q + Span(s, q, Whitespace, TRUE)
        pEnd == pMsg + Span(s, pMsg, {"\n"}, FALSE)
    IN pEnd = Len(s) + 1 \/ (pEnd = Len(s) /\ Ch(s, Len(s)) = "\n")

\* a pattern with one element only, \[.*?\] without (?:\[.*?\])*
RFC5424_sd_single(s, q) == IF RFC5424_tail_matches(s, q) THEN q ELSE 0

\* (?:\[.*?\])*\s*(.*)$ at position q, and .*?\](?:\[.*?\])*\s*(.*)$ at
\* position e: the position after the structured data in the first match the
\* engine finds (another element before none; the nearest "]" before a
\* farther one), or 0 when there is no match
RECURSIVE RFC5424_sd_elements(_, _), RFC5424_sd_close(_, _)
RFC5424_sd_elements(s, q) ==
    LET more == IF Ch(s, q) = "[" THEN RFC5424_sd_close(s, q + 1) ELSE 0
    IN IF more # 0 THEN more
       ELSE IF RFC5424_tail_matches(s, q) THEN q ELSE 0

RFC5424_sd_close(s, e) ==
    IF e > Len(s) THEN 0
    ELSE IF Ch(s, e) = "]"
        THEN LET rest == RFC5424_sd_elements(s, e + 1)
             IN IF rest # 0 THEN rest ELSE RFC5424_sd_close(s, e + 1)
    ELSE IF Ch(s, e) = "\n" THEN 0
    ELSE RFC5424_sd_close(s, e + 1)

\* (-|\[.*?\](?:\[.*?\])*)\s*(.*)$ at position p: the position after the
\* structured data, or 0
RFC5424_sd_end(s, p) ==
    IF Ch(s, p) = "-" THEN (IF RFC5424_tail_matches(s, p + 1) THEN p + 1 ELSE 0)
    ELSE IF Ch(s, p) = "[" THEN RFC5424_sd_close(s, p + 1)
    ELSE 0

\* the structured data group, then \s*(.*)$
RFC5424_re_sd(s, m) ==
    IF m.ok /\ RFC5424_sd_end(s, m.pos) # 0
    THEN ReCapture(s, [ReMark(m) EXCEPT !.pos = RFC5424_sd_end(s, m.pos)])
    ELSE NoMatch

\* ^<(\d+)>(\d+)\s+
RFC5424_re_version(s) ==
    ReClass(s, ReCapture(s, ReClass(s, ReMark(
        ReLit(s, ReCapture(s, ReClass(s, ReMark(ReLit(s, ReStart, "<")),
                                      Digits, TRUE, 1, 0)), ">")),
                                    Digits, TRUE, 1, 0)),
            Whitespace, TRUE, 1, 0)
\* (\S+)\s+ after m
RFC5424_re_token(s, m) ==
    ReClass(s, ReCapture(s, ReClass(s, ReMark(m), Whitespace, FALSE, 1, 0)),
            Whitespace, TRUE, 1, 0)
\* timestamp, hostname, app-name, procid, msgid: (\S+)\s+ five times
RFC5424_re_header(s) ==
    RFC5424_re_token(s, RFC5424_re_token(s, RFC5424_re_token(s,
        RFC5424_re_token(s, RFC5424_re_token(s, RFC5424_re_version(s))))))
\* (-|\[.*?\](?:\[.*?\])*)\s*(.*)$
RFC5424_re_message(s) ==
    ReEnd(s, ReCapture(s,
        ReClass(s, ReMark(ReClass(s, RFC5424_re_sd(s, RFC5424_re_header(s)),
                                  Whitespace, TRUE, 0, 0)),
                {"\n"}, FALSE, 0, 0)))

\* match.groups()
RFC5424_groups(m) ==
    [priority_str |-> Val(m.g[1]), version_str |-> Val(m.g[2]),
     timestamp_str |-> Val(m.g[3]), hostname |-> Val(m.g[4]),
     app_name |-> Val(m.g[5]), proc_id |-> Val(m.g[6]), msg_id |-> Val(m.g[7]),
     structured_data |-> Val(m.g[8]), message |-> Val(m.g[9])]

\* RFC5424_PATTERN.match(s): the nine groups, or None
RFC5424_PATTERN_match(s) == ReGroups(RFC5424_re_message(s))

\* a decoder that carries "-" through as a value
NilValue_kept(token) == Some(token)

\* a decoder that takes every token beginning with "-" for the nil value
NilValue_dash_prefix(token) == IF Ch(token, 1) = "-" THEN None ELSE Some(token)

\* None if token == "-" else token
NilValue(token) == IF token = "-" THEN None ELSE Some(token)

\* RFC5424Parser.parse once the pattern has been matched; rfc_version is not
\* passed to the constructor and keeps the default of SyslogMessage
RFC5424_parse_match(match) ==
    LET g == RFC5424_groups(Val(match))
        priority == IntOf(g.priority_str)
        version == IntOf(g.version_str)
        fs == RFC5424_parse_priority(priority.val)
    IN IF IsNone(match) THEN Raise("ValueError", "Invalid RFC 5424 syslog format")
       ELSE IF ~priority.ok THEN Raise("ValueError", "Parsing error: " \o priority.msg)
       ELSE IF ~version.ok THEN Raise("ValueError", "Parsing error: " \o version.msg)
       ELSE Ok([priority |-> priority.val,
                facility |-> fs[1],
                severity |-> fs[2],
                version |-> version.val,
                timestamp |-> g.timestamp_str,
                hostname |-> g.hostname,
                app_name |-> NilValue(g.app_name),
                pid |-> NilValue(g.proc_id),
                msg_id |-> NilValue(g.msg_id),
                structured_data |-> NilValue(g.structured_data),
                message |-> g.message,
                rfc_version |-> "3164"])

\* RFC5424Parser.parse
RFC5424_parse(raw) == RFC5424_parse_match(RFC5424_PATTERN_match(strip(raw)))

\* parse_service.parse
parse(version, msg, t) ==
    IF version = "5424" THEN RFC5424_parse(msg) ELSE RFC3164_parse(msg, t)

(***************************************************************************)
(* str.lower(), str.upper() and str.encode('utf-8') of the texts of the    *)
(* model, which are ASCII: one byte for each character.                    *)
(***************************************************************************)
UpperCase == "ABCDEFGHIJKLMNOPQRSTUVWXYZ"
LowerCase == "abcdefghijklmnopqrstuvwxyz"
\* the characters 32 .. 95 and 97 .. 126 in order
AsciiTo95 ==
    " !" \o "\"" \o "#$%&'()*+,-./0123456789:;<=>?@" \o UpperCase
    \o "[" \o "\\" \o "]^_"
AsciiFrom97 == LowerCase \o "{|}~"

\* the position of the character c in the text, 0 when it is not there
RECURSIVE IndexIn(_, _, _)
IndexIn(text, c, i) ==
    IF i > Len(text) THEN 0
    ELSE IF Ch(text, i) = c THEN i
    ELSE IndexIn(text, c, i + 1)

\* each character of s that is in from replaced by the one at its place in to
RECURSIVE Translate(_, _, _)
Translate(s, from, to) ==
    IF s = "" THEN ""
    ELSE (IF IndexIn(from, Ch(s, 1), 1) = 0 THEN Ch(s, 1)
          ELSE Ch(to, IndexIn(from, Ch(s, 1), 1)))
         \o Translate(From(s, 2), from, to)

lower(s) == Translate(s, UpperCase, LowerCase)
upper(s) == Translate(s, LowerCase, UpperCase)

\* the codes of the characters of the model
CodePoints ==
    [c \in {Ch(AsciiTo95, i) : i \in 1 .. Len(AsciiTo95)} |->
        31 + IndexIn(AsciiTo95, c, 1)]
    @@ [c \in {Ch(AsciiFrom97, i) : i \in 1 .. Len(AsciiFrom97)} |->
        96 + IndexIn(AsciiFrom97, c, 1)]
    @@ ("\t" :> 9) @@ ("\n" :> 10) @@ ("\f" :> 12) @@ ("\r" :> 13)

\* ord(c)
ord(c) == CodePoints[c]

\* message.encode('utf-8'): the bytes
encode(s) == [i \in 1 .. Len(s) |-> ord(Ch(s, i))]

(***************************************************************************)
(* The sender.  What the operating system does to a call is its fault:     *)
(* "none", or the socket call that fails.  A call returns its outcome, the *)
(* sockets it opened and closed, and what it handed to the network.        *)
(***************************************************************************)
\* str(e) of the OSError a fault raises
FaultText(fault) ==
    CASE fault = "socket" -> "[Errno 24] Too many open files"
      [] fault = "resolve" -> "[Errno -2] Name or service not known"
      [] fault = "unreachable" -> "[Errno 101] Network is unreachable"
      [] fault = "refused" -> "[Errno 111] Connection refused"
      [] fault = "timeout" -> "timed out"
      [] fault = "reset" -> "[Errno 104] Connection reset by peer"
      [] OTHER -> ""

\* what a call of the sender comes to
Sent(outcome, opened, closed, data) ==
    [outcome |-> outcome, opened |-> opened, closed |-> closed, wire |-> data]

\* one datagram or one write of a stream
Transmission(protocol, host, port, data) ==
    [protocol |-> protocol, host |-> host, port |-> port, data |-> data]

\* SyslogSender.send_udp: socket(), sendto(), close().  sendto() resolves the
\* host, then refuses a port outside 0..65535 with an OverflowError, which is
\* no OSError; a call that fails leaves its socket open
send_udp(message, host, port, fault) ==
    IF fault = "socket"
        THEN Sent(Raise("ConnectionError", "UDP send failed: " \o FaultText(fault)),
                  0, 0, << >>)
    ELSE IF fault = "resolve"
        THEN Sent(Raise("ConnectionError", "UDP send failed: " \o FaultText(fault)),
                  1, 0, << >>)
    ELSE IF port \notin 0 .. 65535
        THEN Sent(Raise("OverflowError", "sendto(): port must be 0-65535."), 1, 0, << >>)
    ELSE IF fault # "none"
        THEN Sent(Raise("ConnectionError", "UDP send failed: " \o FaultText(fault)),
                  1, 0, << >>)
    ELSE Sent(Ok(TRUE), 1, 1, << Transmission("udp", host, port, encode(message)) >>)

\* SyslogSender.send_tcp: socket(), connect(), send(), close(); send may
\* write less than it was given and return without an error
send_tcp(message, host, port, fault) ==
    IF fault = "socket"
        THEN Sent(Raise("ConnectionError", "TCP send failed: " \o FaultText(fault)),
                  0, 0, << >>)
    ELSE IF fault = "resolve"
        THEN Sent(Raise("ConnectionError", "TCP send failed: " \o FaultText(fault)),
                  1, 0, << >>)
    ELSE IF port \notin 0 .. 65535
        THEN Sent(Raise("OverflowError", "connect(): port must be 0-65535."), 1, 0, << >>)
    ELSE IF fault = "partial"
        THEN Sent(Ok(TRUE), 1, 1,
                  << Transmission("tcp", host, port,
                                  SubSeq(encode(message), 1, Len(message) \div 2)) >>)
    ELSE IF fault # "none"
        THEN Sent(Raise("ConnectionError", "TCP send failed: " \o FaultText(fault)),
                  1, 0, << >>)
    ELSE Sent(Ok(TRUE), 1, 1, << Transmission("tcp", host, port, encode(message)) >>)

\* a send that takes every protocol but "tcp" for "udp"
send_udp_by_default(protocol, message, host, port, fault) ==
    IF protocol = "tcp" THEN send_tcp(message, host, port, fault)
    ELSE send_udp(message, host, port, fault)

\* SyslogSender.send
send(protocol, message, host, port, fault) ==
    IF protocol = "udp" THEN send_udp(message, host, port, fault)
    ELSE IF protocol = "tcp" THEN send_tcp(message, host, port, fault)
    ELSE Sent(Raise("ValueError", "Protocol must be 'udp' or 'tcp'"), 0, 0, << >>)

(***************************************************************************)
(* The endpoints of routers/syslog.py.  A call returns its response (or    *)
(* the exception it lets through), the outcomes of the parse and of the    *)
(* send it made, and the service calls it made, in order.                  *)
(***************************************************************************)
\* SyslogResponse(success=..., ...)
SyslogResponse(success, parsed, error, sent_to, generated) ==
    [success |-> success, parsed_message |-> parsed, error |-> error,
     sent_to |-> sent_to, generated_message |-> generated]

\* f"{request.target_server}:{request.target_port} ({request.protocol.upper()})"
SentTo(req) ==
    req.target_server \o ":" \o IntStr(req.target_port)
    \o " (" \o upper(req.protocol) \o ")"

\* no send was made
NotSent == Sent(NoOutcome, 0, 0, << >>)

\* what an endpoint call comes to
Handled(resp, generated, parsed, sent, evs) ==
    [response |-> resp, generated |-> generated, parsed |-> parsed,
     sent |-> sent, events |-> evs]

\* one except clause for both errors: error=str(e)
parse_syslog_except_alike(raised) ==
    IF raised.exc \in {"ValueError", "ConnectionError"}
        THEN Ok(SyslogResponse(FALSE, None, Some(raised.msg), None, None))
    ELSE raised

\* the except clauses of parse_syslog; any other exception goes through
parse_syslog_except(raised) ==
    IF raised.exc = "ValueError"
        THEN Ok(SyslogResponse(FALSE, None, Some(raised.msg), None, None))
    ELSE IF raised.exc = "ConnectionError"
        THEN Ok(SyslogResponse(FALSE, None,
                               Some("Transmission error: " \o raised.msg), None, None))
    ELSE raised

\* a parse_syslog that has sent the text before it looks at the parse
parse_syslog_sent_first(req, parsed, sent) ==
    IF ~sent.outcome.ok
        THEN Handled(parse_syslog_except(sent.outcome), NoOutcome, NoOutcome, sent,
                     <<"send">>)
    ELSE Handled(IF parsed.ok
                     THEN Ok(SyslogResponse(TRUE, Some(parsed.val), None,
                                            Some(SentTo(req)), None))
                 ELSE parse_syslog_except(parsed),
                 NoOutcome, parsed, sent, <<"send", "parse">>)

\* parse_syslog once the parse has been made: the send, if it succeeded
parse_syslog_parsed(req, parsed, sent) ==
    IF ~parsed.ok
        THEN Handled(parse_syslog_except(parsed), NoOutcome, parsed, NotSent, <<"parse">>)
    ELSE Handled(IF sent.outcome.ok
                     THEN Ok(SyslogResponse(TRUE, Some(parsed.val), None,
                                            Some(SentTo(req)), None))
                 ELSE parse_syslog_except(sent.outcome),
                 NoOutcome, parsed, sent, <<"parse", "send">>)

\* parse_syslog(request), the clock reading t
parse_syslog(req, t, fault) ==
    parse_syslog_parsed(req, parse(req.rfc_version, req.raw_message, t),
                        send(lower(req.protocol), req.raw_message,
                             req.target_server, req.target_port, fault))

\* the except clauses of generate_syslog; any other exception goes through
generate_syslog_except(raised) ==
    IF raised.exc = "ValueError"
        THEN Ok(SyslogResponse(FALSE, None, Some(raised.msg), None, None))
    ELSE IF raised.exc = "ConnectionError"
        THEN Ok(SyslogResponse(FALSE, None,
                               Some("Transmission error: " \o raised.msg), None, None))
    ELSE raised

\* a generate_syslog that parses the generated message before it sends it
generate_syslog_parse_first(req, generated, sent, parsed) ==
    IF ~parsed.ok
        THEN Handled(generate_syslog_except(parsed), generated, parsed, NotSent,
                     <<"generate", "parse">>)
    ELSE Handled(IF sent.outcome.ok
                     THEN Ok(SyslogResponse(TRUE, Some(parsed.val), None,
                                            Some(SentTo(req)), Some(generated.val)))
                 ELSE generate_syslog_except(sent.outcome),
                 generated, parsed, sent, <<"generate", "parse", "send">>)

\* generate_syslog once the send has been made: the parse, if it succeeded
generate_syslog_sent(req, generated, sent, parsed) ==
    IF ~sent.outcome.ok
        THEN Handled(generate_syslog_except(sent.outcome), generated, NoOutcome, sent,
                     <<"generate", "send">>)
    ELSE Handled(IF parsed.ok
                     THEN Ok(SyslogResponse(TRUE, Some(parsed.val), None,
                                            Some(SentTo(req)), Some(generated.val)))
                 ELSE generate_syslog_except(parsed),
                 generated, parsed, sent, <<"generate", "send", "parse">>)

\* generate_syslog once the message has been generated: the send, then the
\* parse with the clock reading t2
generate_syslog_generated(req, generated, t2, fault) ==
    IF ~generated.ok
        THEN Handled(generate_syslog_except(generated), generated, NoOutcome, NotSent,
                     <<"generate">>)
    ELSE generate_syslog_sent(
             req, generated,
             send(lower(req.protocol), generated.val, req.target_server,
                  req.target_port, fault),
             parse(req.components.rfc_version, generated.val, t2))

\* generate_syslog(request), the clock reading t at the generation
generate_syslog(req, t, t2, fault) ==
    generate_syslog_generated(
        req, generate(req.components.rfc_version, req.components, t), t2, fault)

\* parse_only once the parse has been made
parse_only_parsed(parsed) ==
    Handled(IF parsed.ok
                THEN Ok(SyslogResponse(TRUE, Some(parsed.val), None, None, None))
            ELSE IF parsed.exc = "ValueError"
                THEN Ok(SyslogResponse(FALSE, None, Some(parsed.msg), None, None))
            ELSE parsed,
            NoOutcome, parsed, NotSent, <<"parse">>)

\* parse_only(raw_message, rfc_version), the clock reading t
parse_only(raw, version, t) == parse_only_parsed(parse(version, raw, t))

\* a generate_only that hands the generated message back with the error
generate_only_generated_kept(generated, parsed) ==
    Handled(IF parsed.ok
                THEN Ok(SyslogResponse(TRUE, Some(parsed.val), None, None,
                                       Some(generated.val)))
            ELSE Ok(SyslogResponse(FALSE, None, Some(parsed.msg), None,
                                   Some(generated.val))),
            generated, parsed, NotSent, <<"generate", "parse">>)

\* generate_only once the message has been generated and parsed
generate_only_generated(generated, parsed) ==
    IF ~generated.ok
        THEN Handled(IF generated.exc = "ValueError"
                         THEN Ok(SyslogResponse(FALSE, None, Some(generated.msg),
                                                None, None))
                     ELSE generated,
                     generated, NoOutcome, NotSent, <<"generate">>)
    ELSE Handled(IF parsed.ok
                     THEN Ok(SyslogResponse(TRUE, Some(parsed.val), None, None,
                                            Some(generated.val)))
                 ELSE IF parsed.exc = "ValueError"
                     THEN Ok(SyslogResponse(FALSE, None, Some(parsed.msg), None, None))
                 ELSE parsed,
                 generated, parsed, NotSent, <<"generate", "parse">>)

\* the parse that generate_only makes of what it generated
generate_only_parse(version, generated, t) ==
    generate_only_generated(generated,
                            IF generated.ok THEN parse(version, generated.val, t)
                            ELSE NoOutcome)

\* generate_only(components), the clock reading t
generate_only(c, t) ==
    generate_only_parse(c.rfc_version, generate(c.rfc_version, c, t), t)

(***************************************************************************)
(* The inputs the calls are made with.                                     *)
(***************************************************************************)
Clock(y, mo, d, hh, mm, ss, us) ==
    [year |-> y, month |-> mo, day |-> d, hour |-> hh, minute |-> mm,
     second |-> ss, microsecond |-> us]

\* readings of datetime.datetime.now(): a one-digit day, the last second of a
\* leap day, the last second of a year, a reading with a fraction
ClockReadings ==
    {Clock(2026, 11, 2, 3, 19, 5, 0), Clock(2024, 2, 29, 23, 59, 59, 123456),
     Clock(2024, 12, 31, 23, 59, 59, 0), Clock(2025, 10, 11, 22, 14, 15, 3000)}

Facilities == 0 .. 23
Severities == 0 .. 7

\* components with every field absent
NoComponents(v) ==
    MessageComponents(v, None, None, None, None, None, None, None, None, None,
                      None, None, None)

\* the components of the priority test of test_syslog.py, and the same for 5424
Plain3164 ==
    [NoComponents("3164") EXCEPT !.hostname = Some("h"), !.tag = Some("t"),
                                 !.message = Some("m")]
Plain5424 ==
    [NoComponents("5424") EXCEPT !.hostname = Some("h"), !.app_name = Some("su"),
                                 !.msg_id = Some("ID47"), !.message = Some("m")]

\* priorities, facilities and severities in and out of the ranges of the RFCs
PriorityInputs == {None, Some(0), Some(34), Some(191), Some(0 - 1)}
                      \cup {Some(191 + k) : k \in 1 .. MaxExtra}
FacilityInputs == {None, Some(0), Some(16), Some(23), Some(0 - 1)}
                      \cup {Some(23 + k) : k \in 1 .. MaxExtra}
SeverityInputs == {None, Some(0), Some(6), Some(7), Some(0 - 1)}
                      \cup {Some(7 + k) : k \in 1 .. MaxExtra}

PriorityComponents ==
    {[base EXCEPT !.priority = p, !.facility = f, !.severity = sv] :
        base \in {Plain3164, Plain5424},
        p \in PriorityInputs, f \in FacilityInputs, sv \in SeverityInputs}

TimestampInputs ==
    {None, Some(""), Some("Oct 11 22:14:15"), Some("Feb 29 10:00:00"),
     Some("Xyz 11 22:14:15"), Some("Oct 32 22:14:15"),
     Some("2003-10-11T22:14:15.003Z")}
HostnameInputs == {None, Some(""), Some("h"), Some("mymachine"), Some("my host")}
TagInputs == {None, Some(""), Some("t"), Some("su"), Some("a:b"), Some("a[1]"),
              Some("a b")}
PidInputs == {None, Some(0), Some(47), Some(1234), Some(0 - 5)}
                 \cup {Some(k) : k \in 1 .. MaxExtra}
MessageInputs == {None, Some(""), Some("m"), Some(" m"), Some("m "), Some("a: b"),
                  Some("a\nb"), Some("'su root' failed for lonvick on /dev/pts/8")}

\* RFC 3164 components: each text field varied alone, and the fields of the
\* wire format that touch each other varied together
Text3164Components ==
    {[Plain3164 EXCEPT !.facility = Some(16), !.severity = Some(6), !.timestamp = ts] :
        ts \in TimestampInputs}
    \cup {[Plain3164 EXCEPT !.hostname = h] : h \in HostnameInputs}
    \cup {[Plain3164 EXCEPT !.tag = tg] : tg \in TagInputs}
    \cup {[Plain3164 EXCEPT !.pid = pd] : pd \in PidInputs}
    \cup {[Plain3164 EXCEPT !.message = m] : m \in MessageInputs}
    \cup {[Plain3164 EXCEPT !.timestamp = ts, !.hostname = h, !.tag = tg,
                            !.pid = pd, !.message = m] :
            ts \in {None, Some("Oct 11 22:14:15")},
            h \in {None, Some("mymachine")},
            tg \in {None, Some("su"), Some("a:b")},
            pd \in {None, Some(0), Some(47)},
            m \in {None, Some(""), Some(" m"), Some("a: b")}}

NilInputs == {None, Some(""), Some("-")}

\* RFC 5424 components
Text5424Components ==
    {[Plain5424 EXCEPT !.timestamp = ts] : ts \in TimestampInputs}
    \cup {[Plain5424 EXCEPT !.hostname = h] : h \in HostnameInputs}
    \cup {[Plain5424 EXCEPT !.message = m] : m \in MessageInputs}
    \cup {[Plain5424 EXCEPT !.app_name = a, !.proc_id = pr, !.msg_id = mi,
                            !.structured_data = sd] :
            a \in NilInputs \cup {Some("su")},
            pr \in NilInputs \cup {Some("smtp[2345]")},
            mi \in {None, Some("ID47")},
            sd \in NilInputs \cup {Some("[a@1 b=\"c d\"][e@1]"), Some("[a"), Some("x"),
                                   Some("[a b=\"x]y\"]")}}

ComponentsInputs == PriorityComponents \cup Text3164Components \cup Text5424Components

\* the version strings generate and parse are called with
VersionInputs == {"3164", "5424", "", "RFC5424", " 5424"}

\* the calls of generate: with the version the components name, as the
\* routers and tests make them, and the plain components under every version
GenerateCalls ==
    {<<c.rfc_version, c>> : c \in ComponentsInputs}
    \cup {<<v, c>> : v \in VersionInputs, c \in {Plain3164, Plain5424}}

RFC3164Example == "<34>Oct 11 22:14:15 mymachine su: 'su root' failed for lonvick on /dev/pts/8"
RFC5424Example == "<165>1 2003-10-11T22:14:15.003Z mymachine su - ID47 - 'su root' failed for lonvick on /dev/pts/8"

\* RFC 3164 messages with a bracket after the tag
PidTexts == {"47", "007", "abc", "12a", "-1", ""}
RFC3164PidMessage(pid_text) == "<34>Oct 11 22:14:15 h t[" \o pid_text \o "]: m"

\* texts handed to parse
RawInputs ==
    {RFC3164Example, RFC5424Example, "not a syslog message", "",
     "  <34>Oct 11 22:14:15 mymachine su[47]: m \n",
     "<34>Oct  1 02:04:05 h t:",
     "<34>Oct 11 22:14:15 h t[abc]: m",
     "<34>Oct 11 22:14:15 h t[]: m",
     "<34>Xyz 11 22:14:15 h t: m",
     "<34>oct 11 22:14:15 h t: m",
     "<34>OCT 11 22:14:15 h t: m",
     "<34>123 11 22:14:15 h t: m",
     "<34>Sept 11 22:14:15 h t: m",
     "<34>Oct 32 22:14:15 h t: m",
     "<34>Oct 0 22:14:15 h t: m",
     "<34>Feb 29 10:00:00 h t: m",
     "<34>Feb 30 10:00:00 h t: m",
     "<34>Apr 31 10:00:00 h t: m",
     "<34>Oct 11 25:14:15 h t: m",
     "<34>Oct 11 24:00:00 h t: m",
     "<34>Oct 11 22:60:15 h t: m",
     "<34>Oct 11 22:14:60 h t: m",
     "<34>Oct 11 22:14:15 h t: a\nb",
     "<34> Oct 11 22:14:15 h t: m",
     "<-1>Oct 11 22:14:15 h t: m",
     "<>Oct 11 22:14:15 h t: m",
     "<999>Oct 11 22:14:15 h t: m",
     "<0>Oct 11 22:14:15 h t: m",
     "<34>1 2003-10-11T22:14:15.003Z mymachine su 47 ID47 [a@1 b=\"c d\"][e@1] m",
     "<34>1 2003-10-11T22:14:15.003Z mymachine - - - - ",
     "<34>1 2003-10-11T22:14:15.003Z mymachine - - - [a] x]\ny",
     "<34>1 2003-10-11T22:14:15.003Z mymachine - - - [a] x\ny",
     "<34>1 2003-10-11T22:14:15.003Z mymachine - - - [a",
     "<34>1 2003-10-11T22:14:15.003Z mymachine - - -",
     "<999>1 - - - - - -",
     "<0>12 t h a p m -x",
     "<34>1 t h -a p- -- - m",
     "<34>1 t h a - i [x]- -"}
    \cup {RFC3164PidMessage(b) : b \in PidTexts}
    \cup {"<34>Dec 31 23:59:59 h t: m", "<34>Jan 1 00:00:00 h t: m"}
    \cup {"<34>Oct 11 22:14:15 h t: a: b:c [1]: d"}
    \cup {"\t<34>1 2003-10-11T22:14:15.003Z mymachine - - - - m \r\n",
          " not a syslog message ", "\n<34>Oct 11 22:14:15 h t[abc]: m", " \n"}
    \cup {"<" \o IntStr(191 + k) \o ">Oct 11 22:14:15 h t: m" : k \in 1 .. MaxExtra}
    \cup {"<" \o IntStr(191 + k) \o ">1 2003-10-11T22:14:15.003Z h a p i - m" :
            k \in 1 .. MaxExtra}

ParseCalls == {"3164", "5424", ""} \X RawInputs

\* the requests of the endpoints and the calls of the sender
ProtocolInputs == {"udp", "tcp", "UDP", "Tcp", "icmp"}
PortInputs == {514, 65536}
HostInputs == {"127.0.0.1"}

\* what the operating system can do to a send of the protocol
FaultsOf(protocol) ==
    IF protocol = "udp" THEN {"none", "socket", "resolve", "unreachable", "timeout"}
    ELSE IF protocol = "tcp"
        THEN {"none", "socket", "resolve", "refused", "timeout", "reset", "partial"}
    ELSE {"none"}

SendCalls ==
    {[protocol |-> pr, message |-> m, host |-> h, port |-> po] :
        pr \in ProtocolInputs, m \in {RFC3164Example, ""}, h \in HostInputs,
        po \in PortInputs}

SyslogRequest(raw, server, port, protocol, version) ==
    [raw_message |-> raw, target_server |-> server, target_port |-> port,
     protocol |-> protocol, rfc_version |-> version]

SyslogRequests ==
    {SyslogRequest(raw, h, po, pr, v) :
        raw \in {RFC3164Example, RFC5424Example, "not a syslog message",
                 "<34>Oct 11 22:14:15 h t[abc]: m"},
        h \in HostInputs, po \in PortInputs, pr \in ProtocolInputs,
        v \in {"3164", "5424"}}

GenerateRequest(c, server, port, protocol) ==
    [components |-> c, target_server |-> server, target_port |-> port,
     protocol |-> protocol]

\* components whose text parses, and components whose text does not
GenerateRequests ==
    {GenerateRequest(c, h, po, pr) :
        c \in {Plain3164, Plain5424,
               [Plain3164 EXCEPT !.pid = Some(0)],
               [Plain3164 EXCEPT !.tag = Some("a b")],
               [Plain5424 EXCEPT !.message = Some("a\nb")]},
        h \in HostInputs, po \in PortInputs, pr \in ProtocolInputs}

(***************************************************************************)
(* DebugSyslogServer.  start() and stop() are called by controllers, the   *)
(* main thread and whoever else holds the server; start() tests running,   *)
(* sets it and starts one thread per protocol.  A listener thread binds    *)
(* its socket and loops while running: it waits a second for a datagram or *)
(* a connection, then tests running again.                                 *)
(***************************************************************************)
Controllers == {1, 2}

\* a thread just started: threading.Thread(target=self.start_udp_server)
Listener(kind) == [kind |-> kind, pc |-> "setup", sock |-> "none"]

\* bind((host, port)) with SO_REUSEADDR set: the operating system takes the
\* address or refuses it (held by another socket, not permitted); a second
\* UDP socket of this server binds next to the first
BindOutcomes(ths, t) == {TRUE, FALSE}

\* a loop that does not look at running
KeepsRunning_forever(run) == TRUE

\* while self.running:
KeepsRunning(run) == run

\* the loop is left: udp_socket.close() / tcp_socket.close()
Exited(th) == [th EXCEPT !.pc = "exited", !.sock = "closed"]

(***************************************************************************)
(* ExampleDatabase: the table custom_examples as a function from the ids   *)
(* in use to the rows, and the operations on it.  A call runs in a session *)
(* of its own; what it changed is in the table once commit() returns, and  *)
(* a session left without commit leaves the table as it was.               *)
(***************************************************************************)
\* CustomExampleModel(name=..., ..., created_at=now, updated_at=now)
CustomExampleModel(id, name, description, version, raw, t) ==
    [id |-> id, name |-> name, description |-> description,
     rfc_version |-> version, raw_message |-> raw,
     created_at |-> t, updated_at |-> t]

\* INTEGER PRIMARY KEY of SQLite: one more than the largest id in the table
NextId(tbl) ==
    IF DOMAIN tbl = {} THEN 1
    ELSE 1 + CHOOSE i \in DOMAIN tbl : \A j \in DOMAIN tbl : j <= i

\* the table with the row stored under its id
WithRow(tbl, row) ==
    [i \in DOMAIN tbl \cup {row.id} |-> IF i = row.id THEN row ELSE tbl[i]]

\* create_example: add, commit, refresh, _model_to_pydantic
create_example(tbl, name, description, version, raw, t) ==
    [table    |-> WithRow(tbl, CustomExampleModel(NextId(tbl), name, description,
                                                  version, raw, t)),
     returned |-> Ok(Some(CustomExampleModel(NextId(tbl), name, description,
                                             version, raw, t)))]

\* session.query(CustomExampleModel).filter(id == example_id).first()
first(tbl, example_id) ==
    IF example_id \in DOMAIN tbl THEN Some(tbl[example_id]) ELSE None

\* a column that is written whenever the argument is not empty
SetIfGiven_truthy(arg, stored) == IF TruthyStr(arg) THEN arg ELSE stored

\* if name is not None: db_example.name = name
SetIfGiven(arg, stored) == IF arg # None THEN arg ELSE stored

\* the assignments of update_example to the row it found
update_example_row(row, args, t) ==
    [row EXCEPT
        !.name = Val(SetIfGiven(args.name, Some(row.name))),
        !.description = SetIfGiven(args.description, row.description),
        !.rfc_version = Val(SetIfGiven(args.rfc_version, Some(row.rfc_version))),
        !.raw_message = Val(SetIfGiven(args.raw_message, Some(row.raw_message))),
        !.updated_at = t]

\* update_example once the row is looked up: None for no row; commit() writes
\* the row, or fails (database locked, disk full) and the session is dropped
update_example_found(tbl, found, args, t, committed) ==
    IF found = None THEN [table |-> tbl, returned |-> Ok(None)]
    ELSE IF ~committed
    THEN [table |-> tbl,
          returned |-> Raise("OperationalError", "database is locked")]
    ELSE [table    |-> WithRow(tbl, update_example_row(Val(found), args, t)),
          returned |-> Ok(Some(update_example_row(Val(found), args, t)))]

update_example(tbl, example_id, args, t, committed) ==
    update_example_found(tbl, first(tbl, example_id), args, t, committed)

\* the route PUT /{example_id}: 404 for no example, the example, or the
\* error of the database
update_example_route(returned) ==
    IF ~returned.ok THEN [status |-> 200, success |-> FALSE, example |-> None]
    ELSE IF returned.val = None
    THEN [status |-> 404, success |-> FALSE, example |-> None]
    ELSE [status |-> 200, success |-> TRUE, example |-> returned.val]

\* no call of the database yet
NoDbCall ==
    [op |-> "none", example_id |-> 0, args |-> << >>, before |-> << >>,
     at |-> << >>, returned |-> NoOutcome, response |-> << >>]

\* what the clients store: name, description, rfc_version, raw_message
CreateInputs == {<<"a", None, "3164", "<34>Oct 11 22:14:15 h t: m">>}

\* the ids clients ask for: the first two rows, and a row that never was
ExampleIdInputs == {1, 2, 9}

\* the bodies of PUT requests: every field is optional, and an empty text
\* is a text
UpdateInputs ==
    {[name |-> None, description |-> None, rfc_version |-> None,
      raw_message |-> None],
     [name |-> Some(""), description |-> None, rfc_version |-> Some("5424"),
      raw_message |-> None],
     [name |-> None, description |-> Some(""), rfc_version |-> None,
      raw_message |-> Some("<13>Jan  1 00:00:00 h t: x")]}

(***************************************************************************)
(* Callers of the two services.  The parsers and the generators are        *)
(* module-level instances without attributes, shared by every caller; what *)
(* a call computes on its way lives in the frame of the call.  A call of   *)
(* parse matches the pattern, then builds the message from the match; a    *)
(* call of generate settles the timestamp, then formats the text.          *)
(***************************************************************************)
Callers == {1, 2}

\* no call in progress
IdleFrame ==
    [pc |-> "idle", kind |-> "", version |-> "", arg |-> None, clock |-> None,
     local |-> None, result |-> NoOutcome, overlapped |-> FALSE]

\* the calls the callers make
CallerCalls ==
    {[kind |-> "parse", version |-> p[1], arg |-> p[2]] :
        p \in {<<"3164", RFC3164Example>>, <<"5424", RFC5424Example>>,
                <<"3164", RFC3164PidMessage("47")>>, <<"3164", RFC5424Example>>}}
    \cup {[kind |-> "generate", version |-> c.rfc_version, arg |-> c] :
            c \in {Plain3164, Plain5424}}

\* an assignment to a name of the instance, which every call sees
StoreShared(fr, self, value) ==
    [c \in DOMAIN fr |-> [fr[c] EXCEPT !.local = value]]

\* match = ... / timestamp = ...: an assignment to a local name of the call
StoreLocal(fr, self, value) ==
    [fr EXCEPT ![self].local = value]

\* the calls in progress that the step of self falls into
Overlap(fr, self) ==
    [c \in DOMAIN fr |->
        IF c # self /\ fr[c].pc \notin {"idle", "returned"}
        THEN [fr[c] EXCEPT !.overlapped = TRUE] ELSE fr[c]]

(***************************************************************************)
(* The fields of a parse result put back into MessageComponents, name by   *)
(* name; pid, a text in the result, is an integer in the components.       *)
(***************************************************************************)
ComponentsOf(v, m) ==
    IF "tag" \in DOMAIN m
    THEN [NoComponents(v) EXCEPT
              !.priority = Some(m.priority), !.facility = Some(m.facility),
              !.severity = Some(m.severity), !.timestamp = Some(m.timestamp),
              !.hostname = Some(m.hostname), !.tag = Some(m.tag),
              !.pid = IF IsNone(m.pid) THEN None ELSE Some(int(Val(m.pid))),
              !.message = Some(m.message)]
    ELSE [NoComponents(v) EXCEPT
              !.priority = Some(m.priority), !.facility = Some(m.facility),
              !.severity = Some(m.severity), !.timestamp = Some(m.timestamp),
              !.hostname = Some(m.hostname), !.app_name = m.app_name,
              !.proc_id = m.pid, !.msg_id = m.msg_id,
              !.structured_data = m.structured_data,
              !.message = Some(m.message)]

(***************************************************************************)
(* The state machine: one scenario per behaviour.  From the idle state the *)
(* priority codec is applied, or generate is called and its text parsed    *)
(* and generated again, or parse is called on a raw text; the clock ticks  *)
(* in between.                                                             *)
(***************************************************************************)
\* no codec call made yet
NoCodec == [facility |-> 0, severity |-> 0, priority |-> None, decoded |-> None]

Init ==
    /\ now \in ClockReadings
    /\ ticks = 0
    /\ call = "idle"
    /\ codec = NoCodec
    /\ rfc_version = ""
    /\ components = None
    /\ generated_message = NoOutcome
    /\ raw_message = None
    /\ parsed_message = NoOutcome
    /\ regenerated = NoOutcome
    /\ clock_read = now
    /\ send_call = None
    /\ send_outcome = NoOutcome
    /\ sockets = [opened |-> 0, closed |-> 0]
    /\ wire = << >>
    /\ request = None
    /\ response = NoOutcome
    /\ events = << >>
    /\ frames = [c \in Callers |-> IdleFrame]
    /\ running = FALSE
    /\ threads = << >>
    /\ ctl = [c \in Controllers |-> "idle"]
    /\ table = << >>
    /\ db_call = NoDbCall

\* a second passes
Tick ==
    /\ ticks < MaxTicks
    /\ now' = NextSecond(now)
    /\ ticks' = ticks + 1
    /\ UNCHANGED <<call, codec, rfc_version, components, generated_message,
                   raw_message, parsed_message, regenerated, clock_read>>
    /\ UNCHANGED <<senderVars, routerVars, callerVars, serverVars, dbVars>>

\* generate_priority(facility, severity)
Encode(f, sv) ==
    /\ call = "idle"
    /\ call' = "encode"
    /\ codec' = [facility |-> f, severity |-> sv,
                 priority |-> Some(RFC3164_generate_priority(f, sv)),
                 decoded |-> None]
    /\ UNCHANGED <<now, ticks, rfc_version, components, generated_message,
                   raw_message, parsed_message, regenerated, clock_read>>
    /\ UNCHANGED <<senderVars, routerVars, callerVars, serverVars, dbVars>>

\* parse_priority(priority) of the priority just encoded
Decode ==
    /\ call = "encode"
    /\ call' = "decode"
    /\ codec' = [codec EXCEPT !.decoded = Some(RFC3164_parse_priority(Val(codec.priority)))]
    /\ UNCHANGED <<now, ticks, rfc_version, components, generated_message,
                   raw_message, parsed_message, regenerated, clock_read>>
    /\ UNCHANGED <<senderVars, routerVars, callerVars, serverVars, dbVars>>

\* generator_service.generate(v, c)
Generate(v, c) ==
    /\ call = "idle"
    /\ call' = "generate"
    /\ rfc_version' = v
    /\ components' = Some(c)
    /\ generated_message' = generate(v, c, now)
    /\ clock_read' = now
    /\ UNCHANGED <<now, ticks, codec, raw_message, parsed_message, regenerated>>
    /\ UNCHANGED <<senderVars, routerVars, callerVars, serverVars, dbVars>>

\* parse_service.parse(rfc_version, generated_message), as generate_only and
\* the tests call it on the text just generated
ParseGenerated ==
    /\ call = "generate"
    /\ generated_message.ok
    /\ call' = "parse_generated"
    /\ raw_message' = Some(generated_message.val)
    /\ parsed_message' = parse(rfc_version, generated_message.val, now)
    /\ clock_read' = now
    /\ UNCHANGED <<now, ticks, codec, rfc_version, components, generated_message,
                   regenerated>>
    /\ UNCHANGED <<senderVars, routerVars, callerVars, serverVars, dbVars>>

\* generate again from the fields just parsed
Regenerate ==
    /\ call = "parse_generated"
    /\ parsed_message.ok
    /\ call' = "regenerate"
    /\ regenerated' = generate(rfc_version, ComponentsOf(rfc_version, parsed_message.val), now)
    /\ clock_read' = now
    /\ UNCHANGED <<now, ticks, codec, rfc_version, components, generated_message,
                   raw_message, parsed_message>>
    /\ UNCHANGED <<senderVars, routerVars, callerVars, serverVars, dbVars>>

\* parse_service.parse(v, raw) of a text from outside
Parse(v, raw) ==
    /\ call = "idle"
    /\ call' = "parse"
    /\ rfc_version' = v
    /\ raw_message' = Some(raw)
    /\ parsed_message' = parse(v, raw, now)
    /\ clock_read' = now
    /\ UNCHANGED <<now, ticks, codec, components, generated_message, regenerated>>
    /\ UNCHANGED <<senderVars, routerVars, callerVars, serverVars, dbVars>>

\* what a call of the sender does to the sockets and the network
Transmit(sent) ==
    /\ send_outcome' = sent.outcome
    /\ sockets' = [opened |-> sockets.opened + sent.opened,
                   closed |-> sockets.closed + sent.closed]
    /\ wire' = wire \o sent.wire

\* SyslogSender.send(protocol, message, host, port)
Send(c, fault) ==
    /\ call = "idle"
    /\ call' = "send"
    /\ send_call' = Some(c @@ [fault |-> fault])
    /\ Transmit(send(c.protocol, c.message, c.host, c.port, fault))
    /\ UNCHANGED <<now, ticks, clock_read, codecVars, routerVars, callerVars, serverVars, dbVars>>

\* what an endpoint call h leaves behind
Respond(h, req, fault) ==
    /\ request' = Some(req)
    /\ generated_message' = h.generated
    /\ raw_message' = IF h.parsed = NoOutcome THEN None
                      ELSE IF h.generated = NoOutcome THEN Some(req.raw_message)
                      ELSE Some(h.generated.val)
    /\ parsed_message' = h.parsed
    /\ send_call' = IF h.sent = NotSent THEN None
                    ELSE Some([protocol |-> lower(req.protocol),
                               message |-> IF h.generated = NoOutcome
                                           THEN req.raw_message ELSE h.generated.val,
                               host |-> req.target_server, port |-> req.target_port,
                               fault |-> fault])
    /\ Transmit(h.sent)
    /\ response' = h.response
    /\ events' = h.events

\* POST /api/syslog/parse
ParseSyslog(req, fault) ==
    /\ call = "idle"
    /\ call' = "parse_syslog"
    /\ rfc_version' = req.rfc_version
    /\ clock_read' = now
    /\ Respond(parse_syslog(req, now, fault), req, fault)
    /\ UNCHANGED <<now, ticks, codec, components, regenerated, callerVars, serverVars, dbVars>>

\* POST /api/syslog/generate; the second late passes during the send
GenerateSyslog(req, fault, late) ==
    /\ call = "idle"
    /\ late => ticks < MaxTicks
    /\ call' = "generate_syslog"
    /\ now' = IF late THEN NextSecond(now) ELSE now
    /\ ticks' = IF late THEN ticks + 1 ELSE ticks
    /\ rfc_version' = req.components.rfc_version
    /\ components' = Some(req.components)
    /\ Respond(generate_syslog(req, now, now', fault), req, fault)
    /\ clock_read' = IF parsed_message' = NoOutcome THEN now ELSE now'
    /\ UNCHANGED <<codec, regenerated, callerVars, serverVars, dbVars>>

\* POST /api/syslog/parse-only
ParseOnly(raw, version) ==
    /\ call = "idle"
    /\ call' = "parse_only"
    /\ rfc_version' = version
    /\ clock_read' = now
    /\ Respond(parse_only(raw, version, now),
               [raw_message |-> raw, rfc_version |-> version], "none")
    /\ UNCHANGED <<now, ticks, codec, components, regenerated, callerVars, serverVars, dbVars>>

\* POST /api/syslog/generate-only
GenerateOnly(c) ==
    /\ call = "idle"
    /\ call' = "generate_only"
    /\ rfc_version' = c.rfc_version
    /\ components' = Some(c)
    /\ clock_read' = now
    /\ Respond(generate_only(c, now), [components |-> c], "none")
    /\ UNCHANGED <<now, ticks, codec, regenerated, callerVars, serverVars, dbVars>>

Next ==
    \/ Tick
    \/ \E f \in Facilities, sv \in Severities : Encode(f, sv)
    \/ Decode
    \/ \E gc \in GenerateCalls : Generate(gc[1], gc[2])
    \/ ParseGenerated
    \/ Regenerate
    \/ \E pc \in ParseCalls : Parse(pc[1], pc[2])
    \/ \E c \in SendCalls : \E fault \in FaultsOf(c.protocol) : Send(c, fault)
    \/ \E req \in SyslogRequests :
          \E fault \in FaultsOf(lower(req.protocol)) : ParseSyslog(req, fault)
    \/ \E req \in GenerateRequests :
          \E fault \in FaultsOf(lower(req.protocol)), late \in BOOLEAN :
             GenerateSyslog(req, fault, late)

Spec == Init /\ [][Next]_vars

(***************************************************************************)
(* The four endpoints of the router, called while the clock ticks.         *)
(***************************************************************************)
NextEndpoints ==
    \/ Tick
    \/ \E req \in SyslogRequests :
          \E fault \in FaultsOf(lower(req.protocol)) : ParseSyslog(req, fault)
    \/ \E req \in GenerateRequests :
          \E fault \in FaultsOf(lower(req.protocol)), late \in BOOLEAN :
             GenerateSyslog(req, fault, late)
    \/ \E pc \in ParseCalls : ParseOnly(pc[2], pc[1])
    \/ \E req \in GenerateRequests : GenerateOnly(req.components)

SpecEndpoints == Init /\ [][NextEndpoints]_vars

(***************************************************************************)
(* Concurrent callers: the steps of the calls of several callers, in any   *)
(* order, while the clock ticks.                                           *)
(***************************************************************************)
\* parse_service.parse(version, msg) or generator_service.generate(version, c)
\* is entered
Call(self, k) ==
    /\ frames[self].pc = "idle"
    /\ frames' = Overlap([frames EXCEPT ![self] =
                     [IdleFrame EXCEPT !.pc = IF k.kind = "parse" THEN "match"
                                              ELSE "timestamp",
                                       !.kind = k.kind, !.version = k.version,
                                       !.arg = k.arg, !.clock = now]], self)
    /\ UNCHANGED <<now, ticks, call, clock_read, codecVars, senderVars, routerVars, serverVars, dbVars>>

\* match = self.RFC..._PATTERN.match(raw_message.strip())
Match(self) ==
    /\ frames[self].pc = "match"
    /\ frames' = Overlap(
           StoreLocal([frames EXCEPT ![self].pc = "build"], self,
                      IF frames[self].version = "5424"
                      THEN RFC5424_PATTERN_match(strip(frames[self].arg))
                      ELSE RFC3164_PATTERN_match(strip(frames[self].arg))), self)
    /\ UNCHANGED <<now, ticks, call, clock_read, codecVars, senderVars, routerVars, serverVars, dbVars>>

\* the rest of the parse: the message from the groups of the match, with the
\* year of the clock for RFC 3164
Build(self) ==
    /\ frames[self].pc = "build"
    /\ frames' = Overlap([frames EXCEPT
           ![self].pc = "returned",
           ![self].clock = now,
           ![self].result = IF frames[self].version = "5424"
                            THEN RFC5424_parse_match(frames[self].local)
                            ELSE RFC3164_parse_match(frames[self].local, now)], self)
    /\ UNCHANGED <<now, ticks, call, clock_read, codecVars, senderVars, routerVars, serverVars, dbVars>>

\* timestamp = components.timestamp if components.timestamp else
\* self.generate_timestamp()
Timestamp(self) ==
    /\ frames[self].pc = "timestamp"
    /\ frames' = Overlap(
           StoreLocal([frames EXCEPT ![self].pc = "format", ![self].clock = now], self,
                      IF TruthyStr(frames[self].arg.timestamp)
                          THEN Ok(Val(frames[self].arg.timestamp))
                      ELSE IF frames[self].version = "5424"
                          THEN RFC5424_generate_timestamp(now)
                      ELSE RFC3164_generate_timestamp(now)), self)
    /\ UNCHANGED <<now, ticks, call, clock_read, codecVars, senderVars, routerVars, serverVars, dbVars>>

\* the rest of the generation: the text with the timestamp settled
Format(self) ==
    /\ frames[self].pc = "format"
    /\ frames' = Overlap([frames EXCEPT
           ![self].pc = "returned",
           ![self].result =
               IF ~frames[self].local.ok THEN frames[self].local
               ELSE generate(frames[self].version,
                             [frames[self].arg EXCEPT
                                 !.timestamp = Some(frames[self].local.val)],
                             frames[self].clock)], self)
    /\ UNCHANGED <<now, ticks, call, clock_read, codecVars, senderVars, routerVars, serverVars, dbVars>>

\* the caller takes the result; its frame is gone
Return(self) ==
    /\ frames[self].pc = "returned"
    /\ frames' = [frames EXCEPT ![self] = IdleFrame]
    /\ UNCHANGED <<now, ticks, call, clock_read, codecVars, senderVars, routerVars, serverVars, dbVars>>

NextCallers ==
    \/ Tick
    \/ \E self \in Callers, k \in CallerCalls : Call(self, k)
    \/ \E self \in Callers : Match(self)
    \/ \E self \in Callers : Build(self)
    \/ \E self \in Callers : Timestamp(self)
    \/ \E self \in Callers : Format(self)
    \/ \E self \in Callers : Return(self)

SpecCallers == Init /\ [][NextCallers]_vars

(***************************************************************************)
(* The debug server: calls of start() and stop() by the controllers and    *)
(* the steps of the listener threads, in any order.                        *)
(***************************************************************************)
apiVars == <<now, ticks, call, clock_read, codecVars, senderVars, routerVars,
             callerVars>>

\* the calls of start() that are past the test of running
Starting == {c \in Controllers : ctl[c] # "idle"}

\* start(): if self.running: return
StartCheck(c) ==
    /\ ctl[c] = "idle"
    /\ Len(threads) + 2 * Cardinality(Starting) + 2 <= MaxThreads
    /\ ctl' = IF running THEN ctl ELSE [ctl EXCEPT ![c] = "set"]
    /\ UNCHANGED <<running, threads, apiVars, dbVars>>

\* start(): self.running = True
StartSet(c) ==
    /\ ctl[c] = "set"
    /\ running' = TRUE
    /\ ctl' = [ctl EXCEPT ![c] = "spawn_udp"]
    /\ UNCHANGED <<threads, apiVars, dbVars>>

\* start(): udp_thread.start()
SpawnUdp(c) ==
    /\ ctl[c] = "spawn_udp"
    /\ threads' = Append(threads, Listener("udp"))
    /\ ctl' = [ctl EXCEPT ![c] = "spawn_tcp"]
    /\ UNCHANGED <<running, apiVars, dbVars>>

\* start(): tcp_thread.start(), and the call returns
SpawnTcp(c) ==
    /\ ctl[c] = "spawn_tcp"
    /\ threads' = Append(threads, Listener("tcp"))
    /\ ctl' = [ctl EXCEPT ![c] = "idle"]
    /\ UNCHANGED <<running, apiVars, dbVars>>

\* stop(): self.running = False
Stop(c) ==
    /\ ctl[c] = "idle"
    /\ running' = FALSE
    /\ UNCHANGED <<threads, ctl, apiVars, dbVars>>

\* start_udp_server / start_tcp_server: socket(), setsockopt(), bind(); a
\* bind that fails leaves the function through its outer except clause
Bind(t, bound) ==
    /\ threads[t].pc = "setup"
    /\ threads' = [threads EXCEPT ![t] =
           IF bound THEN [@ EXCEPT !.pc = "loop", !.sock = "open"]
           ELSE [@ EXCEPT !.pc = "failed", !.sock = "unclosed"]]
    /\ UNCHANGED <<running, ctl, apiVars, dbVars>>

\* while self.running: ... ; after the loop the socket is closed
LoopTest(t) ==
    /\ threads[t].pc = "loop"
    /\ threads' = [threads EXCEPT ![t] =
           IF KeepsRunning(running) THEN [@ EXCEPT !.pc = "wait"] ELSE Exited(@)]
    /\ UNCHANGED <<running, ctl, apiVars, dbVars>>

\* recvfrom() / accept() with the timeout of a second: nothing came
\* (continue), a message was taken, or the socket failed (break)
Wait(t, outcome) ==
    /\ threads[t].pc = "wait"
    /\ threads' = [threads EXCEPT ![t] =
           IF outcome = "error" THEN Exited(@) ELSE [@ EXCEPT !.pc = "loop"]]
    /\ UNCHANGED <<running, ctl, apiVars, dbVars>>

\* a step of listener thread t
ThreadStep(t) ==
    /\ t \in DOMAIN threads
    /\ \/ \E bound \in BindOutcomes(threads, t) : Bind(t, bound)
       \/ LoopTest(t)
       \/ \E outcome \in {"timeout", "message", "error"} : Wait(t, outcome)

\* a step of a call of start() that is past its test
StartStep(c) == StartSet(c) \/ SpawnUdp(c) \/ SpawnTcp(c)

NextServer ==
    \/ \E c \in Controllers : StartCheck(c)
    \/ \E c \in Controllers : StartStep(c)
    \/ \E c \in Controllers : Stop(c)
    \/ \E t \in 1 .. MaxThreads : ThreadStep(t)

SpecServer == Init /\ [][NextServer]_vars

\* every thread that can take a step takes one in the end: the scheduler
\* of the operating system, and the timeout of a second on the sockets
FairServer ==
    /\ \A t \in 1 .. MaxThreads : WF_vars(ThreadStep(t))
    /\ \A c \in Controllers : WF_vars(StartStep(c))

SpecServerFair == SpecServer /\ FairServer

(***************************************************************************)
(* The example store: rows are created and updated while the clock runs.   *)
(***************************************************************************)
\* POST /: example_db.create_example(...)
CreateExample(c) ==
    /\ Cardinality(DOMAIN table) < MaxRows
    /\ table' = create_example(table, c[1], c[2], c[3], c[4], now).table
    /\ db_call' = [op |-> "create", example_id |-> NextId(table),
                   args |-> c, before |-> table, at |-> now,
                   returned |-> create_example(table, c[1], c[2], c[3], c[4],
                                               now).returned,
                   response |-> << >>]
    /\ UNCHANGED <<apiVars, serverVars>>

\* the call of update_example is made and its outcome is answered
UpdateDone(example_id, args, outcome) ==
    /\ table' = outcome.table
    /\ db_call' = [op |-> "update", example_id |-> example_id, args |-> args,
                   before |-> table, at |-> now,
                   returned |-> outcome.returned,
                   response |-> update_example_route(outcome.returned)]
    /\ UNCHANGED <<apiVars, serverVars>>

\* PUT /{example_id}: example_db.update_example(example_id, ...)
UpdateExample(example_id, args, committed) ==
    UpdateDone(example_id, args,
               update_example(table, example_id, args, now, committed))

NextDb ==
    \/ Tick
    \/ \E c \in CreateInputs : CreateExample(c)
    \/ \E example_id \in ExampleIdInputs, args \in UpdateInputs,
          committed \in BOOLEAN :
           UpdateExample(example_id, args, committed)

SpecDb == Init /\ [][NextDb]_vars

(***************************************************************************)
(* What the properties below read off a state.                             *)
(***************************************************************************)
\* the text between "<" and the first ">" of a generated message
WrittenPriority(text) == Sub(text, 2, 1 + Span(text, 2, {">"}, FALSE))

\* the priority the components imply: explicit, else facility*8 + severity,
\* else 34
ImpliedPriority(c) ==
    IF ~IsNone(c.priority) THEN Val(c.priority)
    ELSE IF ~IsNone(c.facility) /\ ~IsNone(c.severity)
        THEN Val(c.facility) * 8 + Val(c.severity)
    ELSE 34

\* a text without whitespace
IsToken(s) == s # "" /\ Span(s, 1, Whitespace, FALSE) = Len(s)

\* "Mon DD HH:MM:SS" (DD space-padded or zero-padded) naming a date and time
\* that exist in the year y
IsTimestamp3164(s, y) ==
    /\ Len(s) = 15
    /\ Sub(s, 1, 3) \in {"Jan", "Feb", "Mar", "Apr", "May", "Jun",
                         "Jul", "Aug", "Sep", "Oct", "Nov", "Dec"}
    /\ Ch(s, 4) = " " /\ Ch(s, 7) = " " /\ Ch(s, 10) = ":" /\ Ch(s, 13) = ":"
    /\ Ch(s, 5) \in Digits \cup {" "}
    /\ \A i \in {6, 8, 9, 11, 12, 14, 15} : Ch(s, i) \in Digits
    /\ int(LStrip(Sub(s, 5, 6))) \in 1 .. DaysInMonth(y, MONTHS[Sub(s, 1, 3)])
    /\ int(Sub(s, 8, 9)) <= 23
    /\ int(Sub(s, 11, 12)) <= 59
    /\ int(Sub(s, 14, 15)) <= 59

\* components valid for RFC 3164 in the year y: the numbers in the ranges of
\* the data model, the texts what the wire format of section 4.2 can carry
Valid3164(c, y) ==
    /\ IsNone(c.priority) \/ Val(c.priority) \in 0 .. 191
    /\ IsNone(c.facility) \/ Val(c.facility) \in Facilities
    /\ IsNone(c.severity) \/ Val(c.severity) \in Severities
    /\ ~TruthyStr(c.timestamp) \/ IsTimestamp3164(Val(c.timestamp), y)
    /\ ~TruthyStr(c.hostname) \/ IsToken(Val(c.hostname))
    /\ ~TruthyStr(c.tag)
         \/ (IsToken(Val(c.tag)) /\ Span(Val(c.tag), 1, {":", "["}, FALSE) = Len(Val(c.tag)))
    /\ IsNone(c.pid) \/ Val(c.pid) >= 0
    /\ IsNone(c.message) \/ Span(Val(c.message), 1, {"\n"}, FALSE) = Len(Val(c.message))

(***************************************************************************)
(* C1.  For every facility f in 0..23 and severity s in 0..7, decoding the *)
(* priority that generate_priority(f, s) produced with parse_priority      *)
(* returns exactly (f, s), and the encoded priority lies in 0..191.        *)
(***************************************************************************)
C1_DecodeInvertsEncode ==
    /\ call \in {"encode", "decode"} => Val(codec.priority) \in 0 .. 191
    /\ call = "decode" => Val(codec.decoded) = <<codec.facility, codec.severity>>

C1_Witness ==
    /\ call = "decode"
    /\ codec.facility = 23 /\ codec.severity = 7
    /\ Val(codec.priority) = 191

(***************************************************************************)
(* C2.  Every message either parser returns satisfies priority =           *)
(* facility*8 + severity with severity in 0..7, and a priority above 191   *)
(* is not rejected: the message is returned with the priority of the text. *)
(***************************************************************************)
C2_PriorityInvariant ==
    /\ parsed_message.ok =>
          /\ parsed_message.val.priority
                = parsed_message.val.facility * 8 + parsed_message.val.severity
          /\ parsed_message.val.severity \in 0 .. 7
          /\ parsed_message.val.facility >= 0
    /\ \A p \in {999} \cup {191 + k : k \in 1 .. MaxExtra} :
          /\ (/\ call = "parse" /\ rfc_version # "5424"
              /\ raw_message = Some("<" \o IntStr(p) \o ">Oct 11 22:14:15 h t: m"))
             => (parsed_message.ok /\ parsed_message.val.priority = p)
          /\ (/\ call = "parse" /\ rfc_version = "5424"
              /\ raw_message \in {Some("<" \o IntStr(p) \o ">1 2003-10-11T22:14:15.003Z h a p i - m"),
                                  Some("<" \o IntStr(p) \o ">1 - - - - - -")})
             => (parsed_message.ok /\ parsed_message.val.priority = p)

C2_Witness ==
    /\ call = "parse" /\ rfc_version = "5424"
    /\ raw_message = Some("<999>1 - - - - - -")
    /\ parsed_message.ok
    /\ parsed_message.val.facility = 124 /\ parsed_message.val.severity = 7

(***************************************************************************)
(* C3.  The priority either generator writes between "<" and ">" is the    *)
(* explicit priority of the components when it is present (0 included,     *)
(* and whatever facility and severity say), else facility*8 + severity     *)
(* when both are present, else 34; the two generators write the same       *)
(* priority for the same components.                                       *)
(***************************************************************************)
C3_PriorityChoice ==
    call = "generate" =>
        /\ generated_message.ok
        /\ WrittenPriority(generated_message.val)
              = IntStr(ImpliedPriority(Val(components)))
        /\ WrittenPriority(RFC3164_generate(Val(components), clock_read).val)
              = WrittenPriority(RFC5424_generate(Val(components), clock_read).val)

C3_Witness ==
    /\ call = "generate" /\ rfc_version = "3164"
    /\ Val(components).priority = Some(0)
    /\ Val(components).facility = Some(16) /\ Val(components).severity = Some(6)
    /\ generated_message.ok
    /\ WrittenPriority(generated_message.val) = "0"

(***************************************************************************)
(* C4.  generate never fails: for every version string and every           *)
(* MessageComponents (fields absent, empty or out of range) it returns a   *)
(* text and raises nothing.                                                *)
(***************************************************************************)
C4_GenerateNeverFails ==
    /\ call \in {"generate", "parse_generated", "regenerate"} =>
          (generated_message.ok /\ Len(generated_message.val) > 0)
    /\ call = "regenerate" => regenerated.ok

C4_Witness ==
    /\ call = "generate"
    /\ rfc_version \notin {"3164", "5424"}
    /\ clock_read.month = 12
    /\ IsNone(Val(components).timestamp)
    /\ generated_message.ok

(***************************************************************************)
(* C5.  For components valid for RFC 3164 (numbers in range, texts the     *)
(* wire format can carry, a timestamp that exists in the year of the       *)
(* clock), parsing the generated message as RFC 3164 succeeds and its      *)
(* priority, facility and severity are those the components imply.         *)
(***************************************************************************)
C5_ParseOfGenerated3164 ==
    (/\ call = "parse_generated"
     /\ rfc_version = "3164"
     /\ Val(components).rfc_version = "3164"
     /\ Valid3164(Val(components), clock_read.year))
    => /\ parsed_message.ok
       /\ parsed_message.val.priority = ImpliedPriority(Val(components))
       /\ parsed_message.val.facility = ImpliedPriority(Val(components)) \div 8
       /\ parsed_message.val.severity = ImpliedPriority(Val(components)) % 8

C5_Witness ==
    /\ call = "parse_generated" /\ rfc_version = "3164"
    /\ Valid3164(Val(components), clock_read.year)
    /\ IsNone(Val(components).priority)
    /\ Val(components).facility = Some(23) /\ Val(components).severity = Some(7)
    /\ parsed_message.ok
    /\ parsed_message.val.priority = 191

\* components well formed for RFC 3164 in the year y: valid, every text
\* absent or not empty, the message without whitespace around it
WellFormed3164(c, y) ==
    /\ Valid3164(c, y)
    /\ \A f \in {"timestamp", "hostname", "tag"} : IsNone(c[f]) \/ Val(c[f]) # ""
    /\ IsNone(c.message) \/ strip(Val(c.message)) = Val(c.message)

\* the value a field of the components has after defaulting
Effective(o, default) == IF IsNone(o) THEN default ELSE Val(o)

\* '<priority>TIMESTAMP HOSTNAME TAG[PID]: MESSAGE' of the given parts, the
\* [PID] segment present exactly when pid is
Wire3164(priority, timestamp, hostname, tag, pid, message) ==
    "<" \o IntStr(priority) \o ">" \o timestamp \o " " \o hostname \o " " \o tag
    \o (IF IsNone(pid) THEN "" ELSE "[" \o Val(pid) \o "]") \o ": " \o message

\* whether s ends with suffix
EndsWith(s, suffix) ==
    Len(s) >= Len(suffix) /\ From(s, Len(s) - Len(suffix) + 1) = suffix

(***************************************************************************)
(* C6.  RFC 3164 round trip: for a message m generated from components c,  *)
(* the values parsed from m equal c's hostname, tag, pid and message, and  *)
(* generating again from the parsed fields yields a message with the same  *)
(* priority, hostname, tag, pid and message text as m.  Stated here for    *)
(* well-formed components only; it fails for pid = 0, which the generator  *)
(* leaves out of m.                                                        *)
(***************************************************************************)
C6_RoundTrip3164 ==
    (/\ call \in {"parse_generated", "regenerate"}
     /\ rfc_version = "3164"
     /\ Val(components).rfc_version = "3164"
     /\ WellFormed3164(Val(components), clock_read.year))
    => /\ parsed_message.ok
       /\ parsed_message.val.priority = ImpliedPriority(Val(components))
       /\ parsed_message.val.hostname = Effective(Val(components).hostname, "localhost")
       /\ parsed_message.val.tag = Effective(Val(components).tag, "app")
       /\ parsed_message.val.pid
             = (IF IsNone(Val(components).pid) THEN None
                ELSE Some(IntStr(Val(Val(components).pid))))
       /\ parsed_message.val.message = Effective(Val(components).message, "")
       /\ call = "regenerate" =>
             /\ regenerated.ok
             /\ regenerated.val
                   = Wire3164(parsed_message.val.priority, parsed_message.val.timestamp,
                              parsed_message.val.hostname, parsed_message.val.tag,
                              parsed_message.val.pid, parsed_message.val.message)

(***************************************************************************)
(* C7.  Parsing the RFC 5424 example                                       *)
(* "<165>1 2003-10-11T22:14:15.003Z mymachine su - ID47 - 'su root' ..."   *)
(* yields priority 165, facility 20, severity 5, proc_id None, msg_id      *)
(* "ID47", structured_data None, and app_name "su" (the token after the    *)
(* hostname).                                                              *)
(***************************************************************************)
C7_Example5424 ==
    (call = "parse" /\ rfc_version = "5424" /\ raw_message = Some(RFC5424Example))
    => /\ parsed_message.ok
       /\ parsed_message.val.priority = 165
       /\ parsed_message.val.facility = 20
       /\ parsed_message.val.severity = 5
       /\ parsed_message.val.app_name = Some("su")
       /\ parsed_message.val.pid = None
       /\ parsed_message.val.msg_id = Some("ID47")
       /\ parsed_message.val.structured_data = None

C7_Witness ==
    /\ call = "parse" /\ rfc_version = "5424" /\ raw_message = Some(RFC5424Example)
    /\ parsed_message.ok
    /\ parsed_message.val.hostname = "mymachine"
    /\ parsed_message.val.message = "'su root' failed for lonvick on /dev/pts/8"

\* C7 as the specification states it: the example parses with app_name None
C7_Example5424_AppNameNone ==
    (call = "parse" /\ rfc_version = "5424" /\ raw_message = Some(RFC5424Example))
    => /\ parsed_message.ok
       /\ parsed_message.val.priority = 165
       /\ parsed_message.val.facility = 20
       /\ parsed_message.val.severity = 5
       /\ parsed_message.val.app_name = None
       /\ parsed_message.val.pid = None
       /\ parsed_message.val.msg_id = Some("ID47")
       /\ parsed_message.val.structured_data = None

(***************************************************************************)
(* C8.  parse has exactly two outcomes, for every text and either version: *)
(* it raises the format error (ValueError) and returns no object, or it    *)
(* returns a message with every required field set (priority, facility,    *)
(* severity, timestamp, hostname, message, and tag for 3164 or version for *)
(* 5424).  "not a syslog message" raises the format error under both.      *)
(***************************************************************************)
C8_ParseOutcomes ==
    /\ call \in {"parse", "parse_generated"} =>
          \/ /\ ~parsed_message.ok
             /\ parsed_message.exc = "ValueError"
             /\ "val" \notin DOMAIN parsed_message
          \/ /\ parsed_message.ok
             /\ {"priority", "facility", "severity", "timestamp", "hostname", "message"}
                   \subseteq DOMAIN parsed_message.val
             /\ parsed_message.val.priority \in Nat
             /\ parsed_message.val.timestamp # ""
             /\ parsed_message.val.hostname # ""
             /\ IF rfc_version = "5424"
                THEN "version" \in DOMAIN parsed_message.val
                     /\ parsed_message.val.version \in Nat
                ELSE "tag" \in DOMAIN parsed_message.val
                     /\ parsed_message.val.tag # ""
    /\ (call = "parse" /\ raw_message = Some("not a syslog message"))
          => (~parsed_message.ok /\ parsed_message.exc = "ValueError")

C8_Witness ==
    /\ call = "parse" /\ rfc_version = "3164"
    /\ raw_message = Some("not a syslog message")
    /\ ~parsed_message.ok
    /\ parsed_message.msg = "Invalid RFC 3164 syslog format"

(***************************************************************************)
(* C9.  The RFC 3164 generator writes exactly                              *)
(* '<priority>TIMESTAMP HOSTNAME TAG[PID]: MESSAGE': single spaces, the    *)
(* ': ' before the message even when it is empty, and the [PID] segment    *)
(* present exactly when the pid of the components is present, 0 included.  *)
(* Stated here for components whose texts are absent or not empty; it      *)
(* fails for pid = 0.                                                      *)
(***************************************************************************)
C9_Format3164 ==
    /\ (/\ call = "generate"
        /\ rfc_version # "5424"
        /\ \A f \in {"timestamp", "hostname", "tag"} :
              IsNone(Val(components)[f]) \/ Val(Val(components)[f]) # "")
       => /\ generated_message.ok
          /\ generated_message.val
                = Wire3164(ImpliedPriority(Val(components)),
                           Effective(Val(components).timestamp,
                                     RFC3164_generate_timestamp(clock_read).val),
                           Effective(Val(components).hostname, "localhost"),
                           Effective(Val(components).tag, "app"),
                           IF IsNone(Val(components).pid) THEN None
                           ELSE Some(IntStr(Val(Val(components).pid))),
                           Effective(Val(components).message, ""))
    /\ (/\ call = "generate"
        /\ rfc_version = "3164"
        /\ Val(components) = [Plain3164 EXCEPT !.facility = Some(16), !.severity = Some(6)])
       => /\ Sub(generated_message.val, 1, 5) = "<134>"
          /\ EndsWith(generated_message.val, "h t: m")

(***************************************************************************)
(* C10.  Parsing, as RFC 3164, a message whose timestamp (the three tokens *)
(* after the priority) has a month outside the case-sensitive table        *)
(* Jan..Dec, or a day, hour, minute or second that do not form a date and  *)
(* time that exist in the year of the clock, raises the format error and   *)
(* returns no message.                                                     *)
(***************************************************************************)
\* the tokens after "<priority>" in the text
TokensAfterPriority(raw) ==
    split(From(strip(raw), 2 + Span(strip(raw), 1, {">"}, FALSE)))

\* a two-digit field of a time, within 0 .. max
IsField(s, max) == Len(s) = 2 /\ AllDigits(s) /\ int(s) <= max

\* whether month, day and time name a date and time that exist in year y
DateTimeExists(month, day, time, y) ==
    /\ month \in {"Jan", "Feb", "Mar", "Apr", "May", "Jun",
                  "Jul", "Aug", "Sep", "Oct", "Nov", "Dec"}
    /\ Len(day) \in {1, 2} /\ AllDigits(day)
    /\ int(day) \in 1 .. DaysInMonth(y, MONTHS[month])
    /\ Len(split_on(time, ":")) = 3
    /\ IsField(split_on(time, ":")[1], 23)
    /\ IsField(split_on(time, ":")[2], 59)
    /\ IsField(split_on(time, ":")[3], 59)

HasBadTimestamp(raw, y) ==
    \/ Len(TokensAfterPriority(raw)) < 3
    \/ ~DateTimeExists(TokensAfterPriority(raw)[1], TokensAfterPriority(raw)[2],
                       TokensAfterPriority(raw)[3], y)

C10_BadTimestampRejected ==
    (/\ call \in {"parse", "parse_generated"}
     /\ rfc_version # "5424"
     /\ HasBadTimestamp(Val(raw_message), clock_read.year))
    => /\ ~parsed_message.ok
       /\ parsed_message.exc = "ValueError"
       /\ "val" \notin DOMAIN parsed_message

C10_Witness ==
    /\ call = "parse" /\ rfc_version = "3164"
    /\ raw_message = Some("<34>Xyz 11 22:14:15 h t: m")
    /\ ~parsed_message.ok
    /\ parsed_message.msg = "Parsing error: Invalid timestamp format: Invalid month: Xyz"

\* the text without the whitespace around it
Trimmed(s) == RStrip(LStrip(s))

\* the whitespace-separated tokens of the text
Tokens(raw) == split(Trimmed(raw))

\* what an optional RFC 5424 token stands for: nothing when it is "-"
Decoded(token) == IF token = "-" THEN None ELSE Some(token)

(***************************************************************************)
(* C11.  In every result of the RFC 5424 parser, APP-NAME, PROC-ID and     *)
(* MSG-ID (the fifth to seventh tokens of the text) and STRUCTURED-DATA    *)
(* (the eighth group of the pattern) are absent exactly when the token is  *)
(* the single character "-", and the token unchanged otherwise; PROC-ID is *)
(* delivered in the field pid, and there is no field proc_id.              *)
(***************************************************************************)
C11_NilDecoding ==
    (/\ call \in {"parse", "parse_generated"}
     /\ rfc_version = "5424"
     /\ parsed_message.ok)
    => /\ Len(Tokens(Val(raw_message))) >= 7
       /\ parsed_message.val.app_name = Decoded(Tokens(Val(raw_message))[4])
       /\ parsed_message.val.pid = Decoded(Tokens(Val(raw_message))[5])
       /\ parsed_message.val.msg_id = Decoded(Tokens(Val(raw_message))[6])
       /\ parsed_message.val.structured_data
             = Decoded(RFC5424_groups(Val(RFC5424_PATTERN_match(
                   Trimmed(Val(raw_message))))).structured_data)
       /\ "proc_id" \notin DOMAIN parsed_message.val

C11_Witness ==
    /\ call = "parse" /\ rfc_version = "5424"
    /\ raw_message = Some("<34>1 t h -a p- -- - m")
    /\ parsed_message.ok
    /\ parsed_message.val.app_name = Some("-a")
    /\ parsed_message.val.pid = Some("p-")
    /\ parsed_message.val.msg_id = Some("--")
    /\ parsed_message.val.structured_data = None

\* the text a field contributes: the default when it is absent or empty
EffectiveText(o, default) == IF IsNone(o) \/ Val(o) = "" THEN default ELSE Val(o)

\* '<priority>1 TIMESTAMP HOSTNAME APP-NAME PROC-ID MSG-ID STRUCTURED-DATA MESSAGE'
Wire5424(priority, timestamp, hostname, app_name, proc_id, msg_id,
         structured_data, message) ==
    "<" \o IntStr(priority) \o ">1 " \o timestamp \o " " \o hostname \o " "
    \o app_name \o " " \o proc_id \o " " \o msg_id \o " " \o structured_data
    \o " " \o message

(***************************************************************************)
(* C12.  The RFC 5424 generator writes exactly                             *)
(* '<priority>1 TIMESTAMP HOSTNAME APP-NAME PROC-ID MSG-ID STRUCTURED-DATA *)
(* MESSAGE' with single spaces and the version 1; app_name, proc_id,       *)
(* msg_id and structured_data are each written as '-' when absent or       *)
(* empty and verbatim otherwise, the hostname is 'localhost' and the       *)
(* timestamp the time of the clock when absent or empty, and the message   *)
(* is empty when absent.                                                   *)
(***************************************************************************)
C12_Format5424 ==
    (call = "generate" /\ rfc_version = "5424")
    => /\ generated_message.ok
       /\ generated_message.val
             = Wire5424(ImpliedPriority(Val(components)),
                        EffectiveText(Val(components).timestamp,
                                      isoformat(clock_read) \o "Z"),
                        EffectiveText(Val(components).hostname, "localhost"),
                        EffectiveText(Val(components).app_name, "-"),
                        EffectiveText(Val(components).proc_id, "-"),
                        EffectiveText(Val(components).msg_id, "-"),
                        EffectiveText(Val(components).structured_data, "-"),
                        EffectiveText(Val(components).message, ""))

C12_Witness ==
    /\ call = "generate" /\ rfc_version = "5424"
    /\ Val(components).app_name = Some("")
    /\ Val(components).proc_id = Some("smtp[2345]")
    /\ Val(components).structured_data = None
    /\ generated_message.ok
    /\ Val(components).msg_id = Some("ID47")
    /\ EndsWith(generated_message.val, " h - smtp[2345] ID47 - m")

\* C12 as the specification states it: each of the four fields, and the
\* hostname, is written verbatim whenever it is present
C12_Format5424_Verbatim ==
    (call = "generate" /\ rfc_version = "5424")
    => /\ generated_message.ok
       /\ generated_message.val
             = Wire5424(ImpliedPriority(Val(components)),
                        Effective(Val(components).timestamp,
                                  isoformat(clock_read) \o "Z"),
                        Effective(Val(components).hostname, "localhost"),
                        Effective(Val(components).app_name, "-"),
                        Effective(Val(components).proc_id, "-"),
                        Effective(Val(components).msg_id, "-"),
                        Effective(Val(components).structured_data, "-"),
                        Effective(Val(components).message, ""))

\* an optional text that is absent or a token without whitespace
AbsentOrToken(o) == IsNone(o) \/ IsToken(Val(o))

\* one or more '[...]' elements, read loosely: a text from "[" to "]"
IsBracketed(s) == Len(s) >= 2 /\ Ch(s, 1) = "[" /\ Ch(s, Len(s)) = "]"

\* one or more '[...]' elements on one line, each closed by its first "]" and
\* followed at once by the next
IsElements(s) ==
    /\ IsBracketed(s)
    /\ Span(s, 1, {"\n"}, FALSE) = Len(s)
    /\ \A i \in 1 .. (Len(s) - 1) : Ch(s, i) = "]" => Ch(s, i + 1) = "["

\* components of the shape C13 is about, the structured data read with sd
TokenComponents5424(c, sd(_)) ==
    /\ AbsentOrToken(c.timestamp)
    /\ AbsentOrToken(c.hostname)
    /\ AbsentOrToken(c.app_name)
    /\ AbsentOrToken(c.proc_id)
    /\ AbsentOrToken(c.msg_id)
    /\ IsNone(c.structured_data) \/ Val(c.structured_data) = "-"
         \/ sd(Val(c.structured_data))

\* what parse is to return for an optional field of the components
DecodedField(o) == IF IsNone(o) THEN None ELSE Decoded(Val(o))

\* parse("5424", generate("5424", c)) returns the fields of c
Returns5424(c) ==
    /\ parsed_message.ok
    /\ parsed_message.val.timestamp
          = Effective(c.timestamp, Tokens(generated_message.val)[2])
    /\ parsed_message.val.hostname = Effective(c.hostname, "localhost")
    /\ parsed_message.val.app_name = DecodedField(c.app_name)
    /\ parsed_message.val.pid = DecodedField(c.proc_id)
    /\ parsed_message.val.msg_id = DecodedField(c.msg_id)
    /\ parsed_message.val.structured_data = DecodedField(c.structured_data)
    /\ parsed_message.val.message = Effective(c.message, "")

(***************************************************************************)
(* C13.  RFC 5424 generate-then-parse: for components whose priority       *)
(* (explicit, from facility and severity, or 34) is not negative, whose    *)
(* timestamp, hostname, app_name, proc_id and msg_id are absent or         *)
(* whitespace-free tokens, whose structured_data is absent, '-', or        *)
(* '[...]' elements on one line that hold no ']' but the one that closes   *)
(* each, and whose message is absent or one line without whitespace at its *)
(* ends, parse("5424", generate("5424", c)) succeeds and returns the same  *)
(* timestamp, hostname, app_name, proc_id (in pid), msg_id,                *)
(* structured_data and message, '-' read as absent.                        *)
(***************************************************************************)
C13_ParseOfGenerated5424 ==
    (/\ call = "parse_generated"
     /\ rfc_version = "5424"
     /\ ImpliedPriority(Val(components)) >= 0
     /\ TokenComponents5424(Val(components), IsElements)
     /\ IsNone(Val(components).message)
          \/ (/\ Trimmed(Val(Val(components).message)) = Val(Val(components).message)
              /\ Span(Val(Val(components).message), 1, {"\n"}, FALSE)
                    = Len(Val(Val(components).message))))
    => Returns5424(Val(components))

C13_Witness ==
    /\ call = "parse_generated" /\ rfc_version = "5424"
    /\ Val(components).timestamp = None
    /\ Val(components).proc_id = Some("smtp[2345]")
    /\ Val(components).structured_data = Some("[a@1 b=\"c d\"][e@1]")
    /\ parsed_message.ok
    /\ parsed_message.val.pid = Some("smtp[2345]")
    /\ parsed_message.val.structured_data = Some("[a@1 b=\"c d\"][e@1]")
    /\ parsed_message.val.message = "m"

\* C13 as the specification states it: any priority, any bracketed structured
\* data, any message
C13_ParseOfGenerated5424_AnyMessage ==
    (/\ call = "parse_generated"
     /\ rfc_version = "5424"
     /\ TokenComponents5424(Val(components), IsBracketed))
    => Returns5424(Val(components))

(***************************************************************************)
(* C14.  Dispatch: generate(version, components) returns what the RFC 5424 *)
(* generator returns exactly when the version string equals "5424", and    *)
(* what the RFC 3164 generator returns for every other string; parse       *)
(* likewise with the two parsers, so that a result carries the field       *)
(* version exactly when the string is "5424" and the field tag otherwise;  *)
(* the text generated under a version string is parsed, under the same     *)
(* string, by the counterpart of its generator.                            *)
(***************************************************************************)
C14_Dispatch ==
    /\ call = "generate" =>
          generated_message
              = IF rfc_version = "5424"
                THEN RFC5424_generate(Val(components), clock_read)
                ELSE RFC3164_generate(Val(components), clock_read)
    /\ call \in {"parse", "parse_generated"} =>
          /\ parsed_message
                = IF rfc_version = "5424"
                  THEN RFC5424_parse(Val(raw_message))
                  ELSE RFC3164_parse(Val(raw_message), clock_read)
          /\ parsed_message.ok =>
                /\ ("version" \in DOMAIN parsed_message.val) = (rfc_version = "5424")
                /\ ("tag" \in DOMAIN parsed_message.val) = (rfc_version # "5424")

C14_Witness ==
    /\ call = "parse_generated"
    /\ rfc_version = "RFC5424"
    /\ Val(components) = Plain5424
    /\ parsed_message.ok
    /\ parsed_message.val.tag = "app"

(***************************************************************************)
(* C15: SyslogSender.send with a protocol other than exactly "udp" or      *)
(* "tcp" raises ValueError, which is not the ConnectionError of the        *)
(* transport, and it opens no socket and hands nothing to the network;     *)
(* with "udp" or "tcp" a failure of a socket call of the operating system  *)
(* is raised as ConnectionError, and no send of the two ever raises        *)
(* ValueError.                                                             *)
(***************************************************************************)
\* the operating system failed a socket call of the send
OSFailed(c) ==
    \/ c.fault \in {"socket", "resolve"}
    \/ c.fault \notin {"none", "partial"} /\ c.port \in 0 .. 65535

C15_ProtocolValidation ==
    send_call # None =>
        IF Val(send_call).protocol \notin {"udp", "tcp"}
        THEN /\ send_outcome = Raise("ValueError", "Protocol must be 'udp' or 'tcp'")
             /\ send_outcome.exc # "ConnectionError"
             /\ sockets.opened = 0
             /\ wire = << >>
        ELSE /\ ~(~send_outcome.ok /\ send_outcome.exc = "ValueError")
             /\ OSFailed(Val(send_call)) =>
                   ~send_outcome.ok /\ send_outcome.exc = "ConnectionError"

\* send("UDP", ...) is refused, and so is the send of an endpoint when the
\* protocol of the request is neither
C15_Witness ==
    /\ call = "send"
    /\ Val(send_call).protocol = "UDP"
    /\ Val(send_call).message = RFC3164Example
    /\ send_outcome.exc = "ValueError"
    /\ sockets.opened = 0

(***************************************************************************)
(* C16: in parse_syslog and generate_syslog a failure of the transport     *)
(* (ConnectionError: timeout, refused connection, ...) is answered with    *)
(* success=False and an error that begins "Transmission error:"; a failure *)
(* of the parse or of the format (ValueError) is answered with             *)
(* success=False and an error without that prefix; so the two are never    *)
(* answered alike.                                                         *)
(***************************************************************************)
BeginsWith(s, prefix) ==
    Len(s) >= Len(prefix) /\ SubSeq(s, 1, Len(prefix)) = prefix

\* the response reports a failure, its error with the prefix or without
ReportsFailure(prefixed) ==
    /\ response.ok
    /\ ~response.val.success
    /\ ~IsNone(response.val.error)
    /\ BeginsWith(Val(response.val.error), "Transmission error:") = prefixed

C16_FailuresKeptApart ==
    call \in {"parse_syslog", "generate_syslog"} =>
        /\ (~send_outcome.ok /\ send_outcome.exc = "ConnectionError")
              => ReportsFailure(TRUE)
        /\ (~parsed_message.ok /\ parsed_message.exc = "ValueError")
              => ReportsFailure(FALSE)
        /\ (~send_outcome.ok /\ send_outcome.exc = "ValueError")
              => ReportsFailure(FALSE)

\* a refused TCP connection in generate_syslog
C16_Witness ==
    /\ call = "generate_syslog"
    /\ send_call # None
    /\ Val(send_call).fault = "refused"
    /\ response.ok
    /\ response.val.error
          = Some("Transmission error: TCP send failed: [Errno 111] Connection refused")

\* a message that is no RFC 3164 message in parse_syslog
C16_WitnessParse ==
    /\ call = "parse_syslog"
    /\ response.ok
    /\ response.val.error = Some("Invalid RFC 3164 syslog format")
    /\ send_call = None

(***************************************************************************)
(* C17: the RFC 3164 parser accepts a message whose "[...]" after the tag  *)
(* holds characters that are no digits ("tag[abc]: msg") and carries what  *)
(* the bracket holds through as the pid text.                              *)
(*                                                                         *)
(* The pattern reads \[(\d+)\]: the statement fails.  What holds: the      *)
(* bracket is accepted only with one or more digits in it, which are       *)
(* carried through as the pid text as they stand; with anything else in    *)
(* the bracket the message is refused with "Invalid RFC 3164 syslog        *)
(* format".                                                                *)
(***************************************************************************)
\* a parse by the RFC 3164 parser has been made
Parsed3164 ==
    /\ call \in {"parse", "parse_generated", "parse_syslog", "generate_syslog"}
    /\ rfc_version # "5424"
    /\ raw_message # None

\* the statement as it stands
C17_NonDigitPidAccepted ==
    \A b \in PidTexts :
        (Parsed3164 /\ raw_message = Some(RFC3164PidMessage(b)) /\ b # "" /\ ~AllDigits(b))
        => /\ parsed_message.ok
           /\ parsed_message.val.pid = Some(b)

C17_DigitPidOnly ==
    Parsed3164 =>
        /\ \A b \in PidTexts :
              raw_message = Some(RFC3164PidMessage(b)) =>
                  IF b # "" /\ AllDigits(b)
                  THEN /\ parsed_message.ok
                       /\ parsed_message.val.tag = "t"
                       /\ parsed_message.val.pid = Some(b)
                  ELSE parsed_message = Raise("ValueError", "Invalid RFC 3164 syslog format")
        /\ parsed_message.ok =>
              \/ parsed_message.val.pid = None
              \/ /\ Val(parsed_message.val.pid) # ""
                 /\ AllDigits(Val(parsed_message.val.pid))

C17_Witness ==
    /\ call = "parse"
    /\ rfc_version = "3164"
    /\ raw_message = Some(RFC3164PidMessage("12a"))
    /\ parsed_message = Raise("ValueError", "Invalid RFC 3164 syslog format")

(***************************************************************************)
(* C18: for both parsers and every input s, parsing s and parsing s with   *)
(* its leading and trailing whitespace removed give the same outcome, the  *)
(* same message or the same error.                                         *)
(***************************************************************************)
\* s from its first to its last character that is no whitespace
Unpadded(s) ==
    LET inner == {i \in 1 .. Len(s) : ~IsSpace(Ch(s, i))}
    IN IF inner = {} THEN ""
       ELSE SubSeq(s, CHOOSE i \in inner : \A j \in inner : i <= j,
                   CHOOSE i \in inner : \A j \in inner : i >= j)

C18_WhitespaceIgnored ==
    (/\ call \in {"parse", "parse_generated", "parse_syslog", "generate_syslog"}
     /\ raw_message # None)
    => parsed_message = parse(rfc_version, Unpadded(Val(raw_message)), clock_read)

\* a message between whitespace is parsed as the message alone is
C18_Witness ==
    /\ call = "parse"
    /\ rfc_version = "5424"
    /\ raw_message = Some("\t<34>1 2003-10-11T22:14:15.003Z mymachine - - - - m \r\n")
    /\ parsed_message.ok
    /\ parsed_message.val.message = "m"
    /\ parsed_message.val.hostname = "mymachine"

(***************************************************************************)
(* C19: calls of parse and generate keep nothing from one call to another: *)
(* however the steps of the calls of several callers on the shared parser  *)
(* and generator instances fall between each other, a call returns what it *)
(* would return alone with its arguments and the reading of the clock it   *)
(* took.                                                                   *)
(***************************************************************************)
\* what the call of a frame returns when it runs alone
Alone(f) ==
    IF f.kind = "parse" THEN parse(f.version, f.arg, f.clock)
    ELSE generate(f.version, f.arg, f.clock)

C19_CallsIndependent ==
    \A self \in Callers :
        frames[self].pc = "returned" => frames[self].result = Alone(frames[self])

\* a parse returned after the other caller's parse of another text matched
\* in between
C19_Witness ==
    /\ frames[1].pc = "returned"
    /\ frames[1].kind = "parse"
    /\ frames[1].overlapped
    /\ frames[1].result.ok
    /\ frames[1].result.val.hostname = "mymachine"
    /\ frames[2].pc = "build"
    /\ frames[2].version = "3164"
    /\ frames[2].local # None
    /\ Val(frames[2].local).g[3] = Some("h")

(***************************************************************************)
(* C20: a parser never invents a component.  In every message a parse      *)
(* returns, the text fields that are set (hostname, tag, pid, app_name,    *)
(* msg_id, structured_data, message) are pieces of the trimmed input, one  *)
(* after the other in this order, the RFC 3164 pid between "[" and "]"; an *)
(* optional field is set only when the input has its token, which for RFC  *)
(* 5424 is a token other than "-"; the priority is the number written      *)
(* between "<" and ">"; and so none of the defaults of the generators      *)
(* ("localhost", "app", 34, "-") comes from anywhere but the input.        *)
(***************************************************************************)
\* where piece first stands in text at or after position from; 0 if nowhere
RECURSIVE Find(_, _, _)
Find(text, piece, from) ==
    IF from + Len(piece) - 1 > Len(text) THEN 0
    ELSE IF Sub(text, from, from + Len(piece) - 1) = piece THEN from
    ELSE Find(text, piece, from + 1)

\* the pieces stand in text one after the other, from position from on
RECURSIVE InOrder(_, _, _)
InOrder(text, pieces, from) ==
    \/ pieces = << >>
    \/ /\ Find(text, Head(pieces), from) # 0
       /\ InOrder(text, Tail(pieces),
                  Find(text, Head(pieces), from) + Len(Head(pieces)))

\* the optional field as a piece, if it is set
Piece(o) == IF IsNone(o) THEN << >> ELSE <<Val(o)>>

\* the text fields of a parsed message, in the order of the format
TextFields(m) ==
    IF "tag" \in DOMAIN m
    THEN <<m.hostname, m.tag>>
         \o (IF IsNone(m.pid) THEN << >> ELSE <<"[" \o Val(m.pid) \o "]">>)
         \o <<m.message>>
    ELSE <<m.hostname>> \o Piece(m.app_name) \o Piece(m.pid) \o Piece(m.msg_id)
         \o Piece(m.structured_data) \o <<m.message>>

\* the optional fields of a parsed message that are set
OptionalSet(m) ==
    IF "tag" \in DOMAIN m THEN Piece(m.pid)
    ELSE Piece(m.app_name) \o Piece(m.pid) \o Piece(m.msg_id) \o Piece(m.structured_data)

C20_NothingInvented ==
    (/\ call \in {"parse", "parse_generated", "parse_syslog", "generate_syslog"}
     /\ raw_message # None
     /\ parsed_message.ok)
    => /\ InOrder(Unpadded(Val(raw_message)), TextFields(parsed_message.val), 1)
       /\ \A i \in 1 .. Len(OptionalSet(parsed_message.val)) :
             OptionalSet(parsed_message.val)[i] \notin {"", "-"}
       /\ IntOf(WrittenPriority(Unpadded(Val(raw_message))))
             = Ok(parsed_message.val.priority)
       /\ ("tag" \in DOMAIN parsed_message.val /\ IsNone(parsed_message.val.pid))
             => Find(Unpadded(Val(raw_message)), parsed_message.val.tag \o ":", 1) # 0

\* a message without a pid and without the defaults of the generator
C20_Witness ==
    /\ call = "parse"
    /\ rfc_version = "3164"
    /\ raw_message = Some("<34>Oct  1 02:04:05 h t:")
    /\ parsed_message.ok
    /\ parsed_message.val.hostname = "h"
    /\ parsed_message.val.tag = "t"
    /\ parsed_message.val.pid = None
    /\ parsed_message.val.message = ""

(***************************************************************************)
(* C21: the RFC 3164 parser turns the timestamp "Mon D HH:MM:SS" into      *)
(* YYYY-MM-DDTHH:MM:SS: MM the number of the month abbreviation, DD, HH,   *)
(* MM, SS those of the input, YYYY the year the clock shows when the parse *)
(* is made.  So a message that is otherwise well formed is accepted        *)
(* exactly when its date and time exist in that year: "Feb 29 10:00:00"    *)
(* is accepted in a leap year and refused with a format error in any       *)
(* other.                                                                  *)
(***************************************************************************)
\* the number of the month: its place in the year
MonthNumber(name) == CHOOSE i \in 1 .. 12 : months[i] = name

\* the three tokens of the timestamp of the text last parsed
Stamp == TokensAfterPriority(Unpadded(Val(raw_message)))

\* the text last parsed is "<34>Mon D HH:MM:SS h t: m"
PlainStamped ==
    /\ Len(Stamp) >= 3
    /\ Val(raw_message)
          = "<34>" \o Stamp[1] \o " " \o Stamp[2] \o " " \o Stamp[3] \o " h t: m"

C21_TimestampOfYear ==
    Parsed3164 =>
        /\ parsed_message.ok =>
              parsed_message.val.timestamp
                  = Fmt04(clock_read.year) \o "-" \o Fmt02(MonthNumber(Stamp[1]))
                    \o "-" \o Fmt02(int(Stamp[2])) \o "T" \o Stamp[3]
        /\ PlainStamped =>
              /\ parsed_message.ok
                    = DateTimeExists(Stamp[1], Stamp[2], Stamp[3], clock_read.year)
              /\ ~parsed_message.ok => parsed_message.exc = "ValueError"
        /\ Val(raw_message) = "<34>Feb 29 10:00:00 h t: m" =>
              parsed_message.ok
                  = (clock_read.year % 4 = 0
                     /\ (clock_read.year % 100 # 0 \/ clock_read.year % 400 = 0))

\* 29 February in the leap year 2024
C21_Witness ==
    /\ call = "parse"
    /\ rfc_version = "3164"
    /\ raw_message = Some("<34>Feb 29 10:00:00 h t: m")
    /\ clock_read.year = 2024
    /\ parsed_message.ok
    /\ parsed_message.val.timestamp = "2024-02-29T10:00:00"

\* 29 February in 2025, after the year has turned
C21_WitnessRefused ==
    /\ call = "parse"
    /\ raw_message = Some("<34>Feb 29 10:00:00 h t: m")
    /\ clock_read.year = 2025
    /\ parsed_message
          = Raise("ValueError", "Parsing error: Invalid timestamp format: "
                                \o "day is out of range for month")

(***************************************************************************)
(* C22: parse("3164", "<34>Oct 11 22:14:15 mymachine su: 'su root' failed  *)
(* for lonvick on /dev/pts/8") yields priority 34, facility 4, severity 2, *)
(* hostname "mymachine", tag "su", no pid and the message "'su root'       *)
(* failed for lonvick on /dev/pts/8"; a message with further colons is     *)
(* kept whole, only the first ":" after the tag separates.                 *)
(***************************************************************************)
C22_Example3164 ==
    Parsed3164 =>
        /\ Val(raw_message) = RFC3164Example =>
              /\ parsed_message.ok
              /\ parsed_message.val.priority = 34
              /\ parsed_message.val.facility = 4
              /\ parsed_message.val.severity = 2
              /\ parsed_message.val.hostname = "mymachine"
              /\ parsed_message.val.tag = "su"
              /\ parsed_message.val.pid = None
              /\ parsed_message.val.message
                    = "'su root' failed for lonvick on /dev/pts/8"
        /\ Val(raw_message) = "<34>Oct 11 22:14:15 h t: a: b:c [1]: d" =>
              /\ parsed_message.ok
              /\ parsed_message.val.hostname = "h"
              /\ parsed_message.val.tag = "t"
              /\ parsed_message.val.pid = None
              /\ parsed_message.val.message = "a: b:c [1]: d"

C22_Witness ==
    /\ call = "parse"
    /\ rfc_version = "3164"
    /\ raw_message = Some(RFC3164Example)
    /\ parsed_message.ok
    /\ parsed_message.val.tag = "su"
    /\ parsed_message.val.timestamp = "2026-10-11T22:14:15"

(***************************************************************************)
(* C23: parse_syslog transmits the raw message only after it has parsed:   *)
(* when the parse fails no send is attempted, and every send comes after   *)
(* a successful parse of the text that is sent.                            *)
(***************************************************************************)
C23_ParseBeforeSend ==
    call = "parse_syslog" =>
        /\ Len(events) >= 1 /\ events[1] = "parse"
        /\ ~parsed_message.ok =>
              /\ events = <<"parse">>
              /\ send_call = None
              /\ sockets.opened = 0
              /\ wire = << >>
        /\ (send_call # None \/ wire # << >> \/ sockets.opened > 0) =>
              /\ events = <<"parse", "send">>
              /\ parsed_message.ok
              /\ raw_message = Some(Val(send_call).message)
              /\ parsed_message
                    = parse(rfc_version, Val(send_call).message, clock_read)
              /\ \A i \in 1 .. Len(wire) :
                    /\ Len(wire[i].data) <= Len(Val(raw_message))
                    /\ wire[i].data
                          = SubSeq(encode(Val(raw_message)), 1, Len(wire[i].data))

\* a text that does not parse, with a target that would have taken it
C23_Witness ==
    /\ call = "parse_syslog"
    /\ Val(request).raw_message = "not a syslog message"
    /\ Val(request).protocol = "udp"
    /\ Val(request).target_port = 514
    /\ ~parsed_message.ok
    /\ events = <<"parse">>
    /\ wire = << >>
    /\ response.ok /\ ~response.val.success

(***************************************************************************)
(* C24: in generate_syslog a response with success=False means that the    *)
(* generated message was not transmitted: no execution sends the message   *)
(* and then reports failure.                                               *)
(*                                                                         *)
(* The endpoint sends the generated message and parses it afterwards, as   *)
(* its docstring says, so the statement fails when the generated text does *)
(* not parse back.  What holds: a response with success=False comes either *)
(* from a send that failed, and then nothing was transmitted and the error *)
(* is that of the send, or from the parse of a message that has already    *)
(* been transmitted, and then the error is that of the parse.              *)
(***************************************************************************)
\* the endpoint has answered with success=False
GenerateFailed ==
    /\ call = "generate_syslog"
    /\ response.ok
    /\ ~response.val.success

\* the statement as it stands
C24_FailureMeansNotSent ==
    GenerateFailed => wire = << >>

C24_FailureOfSendOrOfParse ==
    GenerateFailed =>
        /\ generated_message.ok
        /\ IsNone(response.val.sent_to)
        /\ \/ /\ events = <<"generate", "send">>
              /\ ~send_outcome.ok
              /\ wire = << >>
              /\ parsed_message = NoOutcome
              /\ response.val.error
                    \in {Some(send_outcome.msg),
                         Some("Transmission error: " \o send_outcome.msg)}
           \/ /\ events = <<"generate", "send", "parse">>
              /\ send_outcome.ok
              /\ Len(wire) = 1
              /\ wire[1].data
                    = SubSeq(encode(generated_message.val), 1, Len(wire[1].data))
              /\ ~parsed_message.ok
              /\ response.val.error = Some(parsed_message.msg)

\* a tag with a space in it: the message is sent, then it does not parse
C24_Witness ==
    /\ GenerateFailed
    /\ Val(components).tag = Some("a b")
    /\ Val(send_call).protocol = "udp"
    /\ Len(wire) = 1
    /\ wire[1].data = encode(generated_message.val)
    /\ response.val.error = Some("Invalid RFC 3164 syslog format")

(***************************************************************************)
(* C25: send_udp and send_tcp close the socket they open on every exit     *)
(* path: after the call has returned or raised (a send that fails, a       *)
(* connection refused, a timeout) no socket the call opened is still open. *)
(* The code closes the socket only on the path that returns: a call that   *)
(* raises leaves it open.                                                  *)
(***************************************************************************)
C25_SocketsClosed ==
    send_call # None => sockets.closed = sockets.opened

(***************************************************************************)
(* C26: every SyslogResponse that parse_syslog, parse_only,                *)
(* generate_syslog or generate_only returns has error set exactly when     *)
(* success is False; with success False it has no parsed_message, no       *)
(* generated_message and no sent_to; with success True it has a            *)
(* parsed_message, a sent_to exactly when the endpoint sends, and a        *)
(* generated_message exactly when the endpoint generates.                  *)
(***************************************************************************)
C26_ResponseShape ==
    (/\ call \in {"parse_syslog", "parse_only", "generate_syslog", "generate_only"}
     /\ response.ok)
    => /\ IsNone(response.val.error) = response.val.success
       /\ ~response.val.success =>
             /\ IsNone(response.val.parsed_message)
             /\ IsNone(response.val.generated_message)
             /\ IsNone(response.val.sent_to)
       /\ response.val.success =>
             /\ response.val.parsed_message = Some(parsed_message.val)
             /\ ~IsNone(response.val.sent_to)
                   = (call \in {"parse_syslog", "generate_syslog"})
             /\ ~IsNone(response.val.generated_message)
                   = (call \in {"generate_syslog", "generate_only"})

\* generate_only of components whose text does not parse back
C26_Witness ==
    /\ call = "generate_only"
    /\ generated_message.ok
    /\ response.ok
    /\ ~response.val.success
    /\ response.val.error = Some("Invalid RFC 3164 syslog format")
    /\ IsNone(response.val.generated_message)

(***************************************************************************)
(* C27: the rfc_version of every parse result names the format that was    *)
(* parsed: "3164" in the results of the RFC 3164 parser, "5424" in those   *)
(* of the RFC 5424 parser.  The RFC 5424 parser does not set the field,    *)
(* and its results carry the default "3164".                               *)
(***************************************************************************)
C27_VersionOfResult ==
    (/\ call \in {"parse", "parse_generated", "parse_syslog", "parse_only",
                  "generate_syslog", "generate_only"}
     /\ parsed_message.ok)
    => parsed_message.val.rfc_version
          = IF rfc_version = "5424" THEN "5424" ELSE "3164"


\* the listener threads of the protocol that are in their loop
Looping(kind) ==
    {t \in DOMAIN threads : threads[t].kind = kind
                            /\ threads[t].pc \in {"loop", "wait"}}

\* every listener that entered its loop has left it and closed its socket
LoopsDown ==
    \A t \in DOMAIN threads :
        threads[t].pc \in {"exited", "failed"}
        /\ (threads[t].pc = "exited" => threads[t].sock = "closed")

\* C28: under any interleaving of start() and stop(), at most one UDP
\* receive loop and at most one TCP accept loop are running at any time.
C28_OneLoopPerProtocol ==
    \A kind \in {"udp", "tcp"} : Cardinality(Looping(kind)) <= 1

\* C29: once the server is stopped and not started again, every listener
\* loop of either protocol leaves its loop and closes its socket in the end,
\* whether it was timing out, taking messages or failing.
C29_LoopsExitAfterStop == (~running) ~> (running \/ LoopsDown)

\* a stopped server whose UDP and TCP loops ran and are closed
C29_Witness ==
    /\ ~running
    /\ Starting = {}
    /\ LoopsDown
    /\ \A kind \in {"udp", "tcp"} :
           \E t \in DOMAIN threads : /\ threads[t].kind = kind
                                     /\ threads[t].pc = "exited"


\* the last call was update_example for a row that was there, and it
\* committed
Updated ==
    /\ db_call.op = "update"
    /\ db_call.example_id \in DOMAIN db_call.before
    /\ db_call.returned.ok

\* the columns of a row that take a value from the request
Columns == {"name", "description", "rfc_version", "raw_message"}

\* the value of a column as the request would give it
Given(column, value) ==
    IF column = "description" THEN value ELSE Val(value)

\* C30: update_example changes only the fields whose argument is not None
\* plus updated_at: a field passed as None keeps its stored value, id and
\* created_at never change, no other row changes, and for an id that does
\* not exist it returns None and leaves the whole table unchanged.
C30_UpdateFrame ==
    db_call.op = "update" =>
        /\ DOMAIN table = DOMAIN db_call.before
        /\ \A i \in DOMAIN table \ {db_call.example_id} :
               table[i] = db_call.before[i]
        /\ db_call.example_id \notin DOMAIN db_call.before =>
               /\ db_call.returned = Ok(None)
               /\ table = db_call.before
        /\ Updated =>
               /\ \A column \in Columns :
                      table[db_call.example_id][column]
                         = IF db_call.args[column] = None
                           THEN db_call.before[db_call.example_id][column]
                           ELSE Given(column, db_call.args[column])
               /\ table[db_call.example_id].id = db_call.example_id
               /\ table[db_call.example_id].created_at
                     = db_call.before[db_call.example_id].created_at
               /\ table[db_call.example_id].updated_at = db_call.at
               /\ db_call.returned.val = Some(table[db_call.example_id])

\* of two rows, the first was given an empty name and a version a second
\* after it was made, its description and message passed as None
C30_Witness ==
    /\ Updated
    /\ Cardinality(DOMAIN table) = 2
    /\ db_call.example_id = 1
    /\ db_call.args.name = Some("")
    /\ db_call.args.description = None
    /\ table[1].name = ""
    /\ table[1].raw_message = db_call.before[1].raw_message
    /\ table[1].updated_at # table[1].created_at
    /\ table[2] = db_call.before[2]

\* an update for an id that no row has
C30_WitnessMissing ==
    /\ db_call.op = "update"
    /\ db_call.example_id \notin DOMAIN db_call.before
    /\ DOMAIN table # {}
    /\ db_call.response.status = 404

====
